---- MODULE Spec2Model ----
(***************************************************************************)
(* RedHub: the command framer (pkg/resp ReadCommands) and the per-         *)
(* connection session state machine (RedHub.OnOpen / OnTraffic / OnClose). *)
(*                                                                         *)
(* A byte is a one-character string; a byte slice is a sequence of bytes.  *)
(* Go's 0-based indices are kept: At(b, i) is b[i], Slice(b, lo, hi) is    *)
(* b[lo:hi].                                                               *)
(***************************************************************************)
EXTENDS Integers, Sequences, FiniteSets, TLC

(***************************************************************************)
(* Byte-slice helpers                                                      *)
(***************************************************************************)
At(b, i) == b[i + 1]

Slice(b, lo, hi) == SubSeq(b, lo + 1, hi)

From(b, lo) == SubSeq(b, lo + 1, Len(b))

CRLF == <<"\r", "\n">>

Digits == <<"0", "1", "2", "3", "4", "5", "6", "7", "8", "9">>

IsDigit(ch) == \E d \in 1..10 : Digits[d] = ch

DigitVal(ch) == (CHOOSE d \in 1..10 : Digits[d] = ch) - 1

\* index of the first LF of b at an index >= i, or -1 (the scanning loops
\* `for ; i < len(b); i++ { if b[i] == '\n'`)
RECURSIVE IndexLF(_, _)
IndexLF(b, i) ==
    IF i >= Len(b) THEN -1
    ELSE IF At(b, i) = "\n" THEN i
    ELSE IndexLF(b, i + 1)

(***************************************************************************)
(* strconv                                                                 *)
(***************************************************************************)
\* strconv.AppendInt(nil, n, 10)
RECURSIVE Itoa(_)
Itoa(n) ==
    IF n < 0 THEN <<"-">> \o Itoa(0 - n)
    ELSE IF n < 10 THEN <<Digits[n + 1]>>
    ELSE Itoa(n \div 10) \o <<Digits[(n % 10) + 1]>>

\* the largest int.  An int of the model has 32 bits, as on a 32-bit
\* platform; the arithmetic below is the same at 64 bits.
MaxInt == 2147483647

\* a + b on int: the sum wraps around
Plus(a, b) ==
    IF a > 0 /\ b > 0 /\ a > MaxInt - b
    THEN ((a - MaxInt) - 1) + ((b - MaxInt) - 1)
    ELSE IF a < 0 /\ b < 0 /\ a < ((0 - MaxInt) - 1) - b
    THEN ((a + MaxInt) + 1) + ((b + MaxInt) + 1)
    ELSE a + b

\* the value of the digits s, or -1 when it is above MaxInt
RECURSIVE DigitsValue(_, _)
DigitsValue(s, acc) ==
    IF s = <<>> THEN acc
    ELSE IF acc < 0 \/ acc > (MaxInt - DigitVal(Head(s))) \div 10 THEN 0 - 1
    ELSE DigitsValue(Tail(s), acc * 10 + DigitVal(Head(s)))

\* parseInt: strconv.Atoi(string(b)); an optional sign, then one or more
\* decimal digits, anything else is an error, and so is a value that does
\* not fit an int.
parseInt(b) ==
    LET signed == Len(b) > 0 /\ b[1] \in {"-", "+"}
        ds     == IF signed THEN Tail(b) ELSE b
        digits == Len(ds) > 0 /\ \A k \in 1..Len(ds) : IsDigit(ds[k])
        mag    == IF digits THEN DigitsValue(ds, 0) ELSE 0
        minInt == signed /\ b[1] = "-" /\ digits /\ mag < 0
                    /\ DigitsValue(SubSeq(ds, 1, Len(ds) - 1), 0) = MaxInt \div 10
                    /\ ds[Len(ds)] = "8"
    IN  IF minInt THEN [n |-> (0 - MaxInt) - 1, ok |-> TRUE]
        ELSE IF mag < 0 THEN [n |-> 0, ok |-> FALSE]
        ELSE [n |-> IF signed /\ b[1] = "-" THEN 0 - mag ELSE mag, ok |-> digits]

(***************************************************************************)
(* Writer                                                                  *)
(***************************************************************************)
WriteArray(count) == <<"*">> \o Itoa(count) \o CRLF

WriteBulk(bulk) == <<"$">> \o Itoa(Len(bulk)) \o CRLF \o bulk \o CRLF

RECURSIVE WriteBulks(_)
WriteBulks(args) ==
    IF args = <<>> THEN <<>> ELSE WriteBulk(Head(args)) \o WriteBulks(Tail(args))

\* the RESP array-of-bulk encoding of an argument list
RespEncode(args) == WriteArray(Len(args)) \o WriteBulks(args)

(***************************************************************************)
(* Protocol errors                                                         *)
(***************************************************************************)
NoErr == "nil"
errUnbalancedQuotes == "unbalanced quotes in request"
errInvalidBulkLength == "invalid bulk length"
errInvalidMultiBulkLength == "invalid multibulk length"

\* errProtocol.msg as bytes
ErrMsgBytes(err) ==
    CASE err = errUnbalancedQuotes ->
           <<"u", "n", "b", "a", "l", "a", "n", "c", "e", "d", " ", "q", "u", "o",
             "t", "e", "s", " ", "i", "n", " ", "r", "e", "q", "u", "e", "s", "t">>
      [] err = errInvalidBulkLength ->
           <<"i", "n", "v", "a", "l", "i", "d", " ", "b", "u", "l", "k", " ",
             "l", "e", "n", "g", "t", "h">>
      [] err = errInvalidMultiBulkLength ->
           <<"i", "n", "v", "a", "l", "i", "d", " ", "m", "u", "l", "t", "i",
             "b", "u", "l", "k", " ", "l", "e", "n", "g", "t", "h">>

\* errProtocol.Error()
ErrorText(err) ==
    <<"P", "r", "o", "t", "o", "c", "o", "l", " ", "e", "r", "r", "o", "r", ":", " ">>
        \o ErrMsgBytes(err)

\* mutant of stripNewlines: only LF is replaced
stripNewlines_OnlyLF(s) == [k \in 1..Len(s) |-> IF s[k] = "\n" THEN " " ELSE s[k]]

stripNewlines(s) == [k \in 1..Len(s) |-> IF s[k] \in {"\r", "\n"} THEN " " ELSE s[k]]

AppendError(b, s) == b \o <<"-">> \o stripNewlines(s) \o CRLF

(***************************************************************************)
(* parseRESPCommand                                                        *)
(* A parse result is [cmd, rest, err]: cmd is <<c>> for a command c =      *)
(* [Raw, Args] and <<>> for a nil *Command; err is NoErr for a nil error.  *)
(* With a command comes marks, the places of its Args in Raw.              *)
(***************************************************************************)
NotEnoughData(b) == [cmd |-> <<>>, rest |-> b, err |-> NoErr]

\* a run-time panic (index or slice bounds out of range); it ends the call
\* and every caller of it
Panic == "panic"

ParseError(e) == [cmd |-> <<>>, rest |-> <<>>, err |-> e]

\* mutant of ArgsOfMarks: each argument runs one byte too far
ArgsOfMarks_OneTooFar(raw, marks) ==
    [h \in 1..(Len(marks) \div 2) |-> Slice(raw, marks[2 * h - 1], marks[2 * h] + 1)]

\* cmd.Args[h/2] = cmd.Raw[marks[h]:marks[h+1]]
ArgsOfMarks(raw, marks) ==
    [h \in 1..(Len(marks) \div 2) |-> Slice(raw, marks[2 * h - 1], marks[2 * h])]

\* the `for j := 0; j < count; j++` loop and the construction that follows
\* it; i is the loop variable of the enclosing scan.  bulkAt is the body of
\* `if b[i] == '\n'` of the inner scan, for the LF found at lf and
\* sz = parseInt(b[si+1 : i-1]).
RECURSIVE readBulks(_, _, _, _, _)
bulkAt(b, lf, j, count, marks, sz) ==
    IF ~sz.ok \/ sz.n < 0
    THEN ParseError(errInvalidBulkLength)
    ELSE IF Plus(Plus(lf, sz.n), 2) >= Len(b)
    THEN NotEnoughData(b)
    ELSE IF Plus(Plus(lf, sz.n), 2) < 0
    THEN ParseError(Panic)
    ELSE IF At(b, lf + sz.n + 2) # "\n" \/ At(b, lf + sz.n + 1) # "\r"
    THEN ParseError(errInvalidBulkLength)
    ELSE readBulks(b, lf + sz.n + 2, j + 1, count, marks \o <<lf + 1, lf + 1 + sz.n>>)

bulkScan(b, si, j, count, marks, lf) ==
    IF lf = -1
    THEN readBulks(b, Len(b), j + 1, count, marks)
    ELSE IF At(b, lf - 1) # "\r"
    THEN ParseError(errInvalidBulkLength)
    ELSE bulkAt(b, lf, j, count, marks, parseInt(Slice(b, si + 1, lf - 1)))

readBulks(b, i, j, count, marks) ==
    IF j >= count
    THEN IF Len(marks) = count * 2
         THEN [cmd  |-> << [Raw  |-> Slice(b, 0, i + 1),
                            Args |-> ArgsOfMarks(Slice(b, 0, i + 1), marks)] >>,
               rest |-> From(b, i + 1),
               err  |-> NoErr,
               marks |-> marks]
         ELSE NotEnoughData(b)
    ELSE IF i + 1 >= Len(b) \/ At(b, i + 1) # "$"
    THEN NotEnoughData(b)
    ELSE bulkScan(b, i + 1, j, count, marks, IndexLF(b, i + 1))

\* mutant of countAt: a count of zero or less is accepted
countAt_AnyCount(b, i, c) ==
    IF ~c.ok
    THEN ParseError(errInvalidMultiBulkLength)
    ELSE readBulks(b, i, 0, c.n, <<>>)

\* the body of `if b[i] == '\n'` of the outer scan, for the first LF at i
countAt(b, i, c) ==
    IF ~c.ok \/ c.n <= 0
    THEN ParseError(errInvalidMultiBulkLength)
    ELSE readBulks(b, i, 0, c.n, <<>>)

countScan(b, i) ==
    IF i = -1
    THEN NotEnoughData(b)
    ELSE IF At(b, i - 1) # "\r"
    THEN ParseError(errInvalidMultiBulkLength)
    ELSE countAt(b, i, parseInt(Slice(b, 1, i - 1)))

parseRESPCommand(b) == countScan(b, IndexLF(b, 1))

(***************************************************************************)
(* parsePlainTextCommand / parseLine                                       *)
(***************************************************************************)
\* the per-character loop of parseLine; st = [quote, quotech, escape, arg,
\* args]; returns st extended with err
RECURSIVE lineLoop(_, _, _)
lineLoop(line, i, st) ==
    IF i >= Len(line) THEN [st EXCEPT !.err = NoErr]
    ELSE LET c == At(line, i) IN
      IF ~st.quote
      THEN IF c = " "
           THEN lineLoop(line, i + 1,
                    IF Len(st.arg) > 0
                    THEN [st EXCEPT !.args = Append(st.args, st.arg), !.arg = <<>>]
                    ELSE st)
           ELSE IF c \in {"\"", "'"}
           THEN IF i # 0
                THEN [st EXCEPT !.err = errUnbalancedQuotes]
                ELSE lineLoop(line, i + 1, [st EXCEPT !.quotech = c, !.quote = TRUE])
           ELSE lineLoop(line, i + 1, [st EXCEPT !.arg = Append(st.arg, c)])
      ELSE IF st.escape
           THEN LET c2 == CASE c = "n" -> "\n"
                            [] c = "r" -> "\r"
                            [] c = "t" -> "\t"
                            [] OTHER   -> c
                IN lineLoop(line, i + 1,
                            [st EXCEPT !.escape = FALSE, !.arg = Append(st.arg, c2)])
           ELSE IF c = st.quotech
           THEN lineLoop(line, i + 1,
                    [st EXCEPT !.quote = FALSE, !.quotech = "",
                               !.args = Append(st.args, st.arg), !.arg = <<>>])
           ELSE IF c = "\\"
           THEN lineLoop(line, i + 1, [st EXCEPT !.escape = TRUE])
           ELSE lineLoop(line, i + 1, [st EXCEPT !.arg = Append(st.arg, c)])

\* mutant of lineResult: a quote still open at the end of the line is closed
lineResult_CloseQuote(st, args) ==
    IF st.err # NoErr THEN [cmd |-> <<>>, err |-> st.err]
    ELSE IF Len(args) > 0
    THEN [cmd |-> << [Raw |-> RespEncode(args), Args |-> args] >>, err |-> NoErr]
    ELSE [cmd |-> <<>>, err |-> NoErr]

\* mutant of lineResult: a line without arguments is a command too
lineResult_EmptyCommand(st, args) ==
    IF st.err # NoErr THEN [cmd |-> <<>>, err |-> st.err]
    ELSE IF st.quote THEN [cmd |-> <<>>, err |-> errUnbalancedQuotes]
    ELSE [cmd |-> << [Raw |-> RespEncode(args), Args |-> args] >>, err |-> NoErr]

\* the end of parseLine, for the state st the loop ended in and the
\* arguments collected (the pending arg included)
lineResult(st, args) ==
    IF st.err # NoErr THEN [cmd |-> <<>>, err |-> st.err]
    ELSE IF st.quote THEN [cmd |-> <<>>, err |-> errUnbalancedQuotes]
    ELSE IF Len(args) > 0
    THEN [cmd |-> << [Raw |-> RespEncode(args), Args |-> args] >>, err |-> NoErr]
    ELSE [cmd |-> <<>>, err |-> NoErr]

lineEnd(st) == lineResult(st, IF Len(st.arg) > 0 THEN Append(st.args, st.arg) ELSE st.args)

\* returns [cmd, err]
parseLine(line) ==
    lineEnd(lineLoop(line, 0,
                [quote |-> FALSE, quotech |-> "", escape |-> FALSE,
                 arg |-> <<>>, args |-> <<>>, err |-> NoErr]))

\* the body of `if b[i] == '\n'`, for r = parseLine(line)
lineAt(b, i, r) ==
    IF r.err # NoErr
    THEN ParseError(r.err)
    ELSE [cmd |-> r.cmd, rest |-> From(b, i + 1), err |-> NoErr]

lineScan(b, i) ==
    IF i = -1
    THEN NotEnoughData(b)
    ELSE lineAt(b, i, parseLine(IF i > 0 /\ At(b, i - 1) = "\r"
                                THEN Slice(b, 0, i - 1) ELSE Slice(b, 0, i)))

parsePlainTextCommand(b) == lineScan(b, IndexLF(b, 0))

(***************************************************************************)
(* ReadCommands                                                            *)
(* The result is [returns, cmds, leftover, err].  returns = FALSE means    *)
(* the call never returns: an iteration of `for len(b) > 0` that yields no *)
(* error and leaves b as it was (rest = b, no command) re-enters the loop  *)
(* in the same state, and nothing in the loop body breaks out of it.       *)
(***************************************************************************)
NeverReturns == [returns |-> FALSE, cmds |-> <<>>, leftover |-> <<>>, err |-> NoErr]

\* the `for len(b) > 0` loop and the code after it; writeback is nil until
\* the loop has ended
RECURSIVE readLoop(_, _)
\* mutant of readStep: a new command is put in front of those framed before
readStep_Prepend(b, cmds, r) ==
    IF r.err # NoErr
    THEN [returns |-> TRUE, cmds |-> <<>>, leftover |-> <<>>, err |-> r.err]
    ELSE IF r.cmd = <<>> /\ r.rest = b
    THEN NeverReturns
    ELSE readLoop(r.rest, r.cmd \o cmds)

\* one iteration, for the parse result r of the command at the front of b
readStep(b, cmds, r) ==
    IF r.err # NoErr
    THEN [returns |-> TRUE, cmds |-> <<>>, leftover |-> <<>>, err |-> r.err]
    ELSE IF r.cmd = <<>> /\ r.rest = b
    THEN NeverReturns
    ELSE readLoop(r.rest, cmds \o r.cmd)

\* mutant of readLoop: the dialect is detected for the first command
\* only, and every command after it is read as RESP
readLoop_KeepDialect(b, cmds) ==
    IF Len(b) = 0
    THEN [returns  |-> TRUE,
          cmds     |-> cmds,
          leftover |-> IF Len(b) > 0 THEN b ELSE <<>>,
          err      |-> NoErr]
    ELSE readStep(b, cmds,
                  IF b[1] = "*" \/ cmds # <<>>
                  THEN parseRESPCommand(b) ELSE parsePlainTextCommand(b))

readLoop(b, cmds) ==
    IF Len(b) = 0
    THEN [returns  |-> TRUE,
          cmds     |-> cmds,
          leftover |-> IF Len(b) > 0 THEN b ELSE <<>>,
          err      |-> NoErr]
    ELSE readStep(b, cmds,
                  IF b[1] = "*" THEN parseRESPCommand(b) ELSE parsePlainTextCommand(b))

ReadCommands(buf) == readLoop(buf, <<>>)

(***************************************************************************)
(* The RESP value codec: Append* and ReadNextRESP                          *)
(* A RESP value is [Type, Raw, Data, DataIsNil, Count]; DataIsNil tells a  *)
(* nil Data slice from an empty one.                                       *)
(***************************************************************************)
Integer == ":"
String == "+"
Bulk == "$"
Array == "*"
Error == "-"

\* Type(0), the Type of RESP{}
NoType == "0x00"

\* (0, RESP{})
NoValue ==
    [n |-> 0,
     resp |-> [Type |-> NoType, Raw |-> <<>>, Data |-> <<>>, DataIsNil |-> TRUE, Count |-> 0]]

\* mutant of appendPrefix: the sign of n is not written
appendPrefix_NoSign(b, c, n) ==
    IF n >= 0 /\ n <= 9
    THEN b \o <<c, Digits[n + 1]>> \o CRLF
    ELSE b \o <<c>> \o Itoa(IF n < 0 THEN 0 - n ELSE n) \o CRLF

appendPrefix(b, c, n) ==
    IF n >= 0 /\ n <= 9
    THEN b \o <<c, Digits[n + 1]>> \o CRLF
    ELSE b \o <<c>> \o Itoa(n) \o CRLF

AppendInt(b, n) == appendPrefix(b, Integer, n)

AppendArray(b, n) == appendPrefix(b, Array, n)

AppendBulk(b, bulk) == appendPrefix(b, Bulk, Len(bulk)) \o bulk \o CRLF

AppendString(b, s) == b \o <<"+">> \o stripNewlines(s) \o CRLF

AppendNull(b) == b \o <<"$", "-", "1", "\r", "\n">>

\* mutant of validInteger: a lone '-' passes
validInteger_LoneMinus(data) ==
    /\ Len(data) > 0
    /\ \A k \in 1..Len(data) : (k = 1 /\ data[1] = "-") \/ IsDigit(data[k])

\* the Integer check of ReadNextRESP: an optional '-', then digits only,
\* at least one
validInteger(data) ==
    /\ Len(data) > 0
    /\ data[1] = "-" => Len(data) > 1
    /\ \A k \in 1..Len(data) : (k = 1 /\ data[1] = "-") \/ IsDigit(data[k])

RECURSIVE ReadNextRESP(_), readElems(_, _, _, _, _, _)

\* ReadNextRESP panicked (index out of range)
Panicked == [n |-> 0 - 1, resp |-> NoValue.resp]

\* mutant of readElem: an element that cannot be read is left out
readElem_SkipUnread(b, i, count, j, tn, resp, r) ==
    IF r.resp.Type = NoType
    THEN readElems(b, i, count, j + 1, tn, resp)
    ELSE readElems(b, i, count, j + 1, tn + r.n, resp)

\* one iteration of `for j := 0; j < resp.Count; j++`, for the child read r
readElem(b, i, count, j, tn, resp, r) ==
    IF r.n < 0
    THEN Panicked
    ELSE IF r.resp.Type = NoType
    THEN NoValue
    ELSE readElems(b, i, count, j + 1, tn + r.n, resp)

\* the Array loop of ReadNextRESP and the code after it
readElems(b, i, count, j, tn, resp) ==
    IF j >= count
    THEN [n |-> i + tn,
          resp |-> [resp EXCEPT !.Data = Slice(b, i, i + tn), !.Raw = Slice(b, 0, i + tn)]]
    ELSE readElem(b, i, count, j, tn, resp, ReadNextRESP(From(b, i + tn)))

\* mutant of readCounted: a null Bulk gets empty, non-nil Data
readCounted_NullAsEmpty(b, i, resp, c) ==
    IF resp.Type = Bulk
    THEN IF ~c.ok THEN NoValue
         ELSE IF c.n < 0
         THEN [n |-> i, resp |-> [resp EXCEPT !.Data = <<>>]]
         ELSE IF Len(b) < Plus(Plus(i, c.n), 2) THEN NoValue
         ELSE IF Plus(i, c.n) < 0 \/ Plus(i, c.n) >= Len(b) THEN Panicked
         ELSE IF At(b, i + c.n) # "\r" \/ At(b, i + c.n + 1) # "\n" THEN NoValue
         ELSE [n |-> i + c.n + 2,
               resp |-> [resp EXCEPT !.Data = Slice(b, i, i + c.n),
                                     !.Raw = Slice(b, 0, i + c.n + 2)]]
    ELSE IF ~c.ok THEN NoValue
         ELSE readElems(b, i, c.n, 0, 0, [resp EXCEPT !.Count = c.n])

\* ReadNextRESP from `resp.Count, err = strconv.Atoi(string(resp.Data))` on,
\* for c = the result of Atoi
readCounted(b, i, resp, c) ==
    IF resp.Type = Bulk
    THEN IF ~c.ok THEN NoValue
         ELSE IF c.n < 0
         THEN [n |-> i, resp |-> [resp EXCEPT !.Data = <<>>, !.DataIsNil = TRUE]]
         ELSE IF Len(b) < Plus(Plus(i, c.n), 2) THEN NoValue
         ELSE IF Plus(i, c.n) < 0 \/ Plus(i, c.n) >= Len(b) THEN Panicked
         ELSE IF At(b, i + c.n) # "\r" \/ At(b, i + c.n + 1) # "\n" THEN NoValue
         ELSE [n |-> i + c.n + 2,
               resp |-> [resp EXCEPT !.Data = Slice(b, i, i + c.n),
                                     !.Raw = Slice(b, 0, i + c.n + 2)]]
    ELSE IF ~c.ok THEN NoValue
         ELSE readElems(b, i, c.n, 0, 0, [resp EXCEPT !.Count = c.n])

\* ReadNextRESP after the header line, which ends before index i
readBody(b, i, resp) ==
    IF resp.Type = Integer
    THEN IF validInteger(resp.Data) THEN [n |-> i, resp |-> resp] ELSE NoValue
    ELSE IF resp.Type \in {String, Error}
    THEN [n |-> i, resp |-> resp]
    ELSE readCounted(b, i, resp, parseInt(resp.Data))

\* the `read to end of line` loop, for the first LF at lf (index >= 1)
readHeader(b, lf) ==
    IF lf = -1 THEN NoValue
    ELSE IF At(b, lf - 1) # "\r" THEN NoValue
    ELSE readBody(b, lf + 1,
                  [Type |-> b[1], Raw |-> Slice(b, 0, lf + 1), Data |-> Slice(b, 1, lf - 1),
                   DataIsNil |-> FALSE, Count |-> 0])

ReadNextRESP(b) ==
    IF Len(b) = 0 THEN NoValue
    ELSE IF b[1] \notin {Integer, String, Bulk, Array, Error} THEN NoValue
    ELSE readHeader(b, IndexLF(b, 1))

(***************************************************************************)
(* ReadNextCommand and its dialect readers                                 *)
(* The result is [complete, args, kind, leftover, err].                    *)
(***************************************************************************)
Redis == "Redis"
Tile38 == "Tile38"
Telnet == "Telnet"

errInvalidMessage == "invalid message"
errExpectedDollar == "expected '$'"

\* mutant of Incomplete: the packet is consumed
Incomplete_Consumed(kind, packet) ==
    [complete |-> FALSE, args |-> <<>>, kind |-> kind, leftover |-> <<>>, err |-> NoErr]

\* return false, args[:0], kind, packet, nil
Incomplete(kind, packet) ==
    [complete |-> FALSE, args |-> <<>>, kind |-> kind, leftover |-> packet, err |-> NoErr]

\* return false, args[:0], kind, packet, err
Failed(kind, packet, err) ==
    [complete |-> FALSE, args |-> <<>>, kind |-> kind, leftover |-> packet, err |-> err]

\* return true, args, kind, packet[i:], nil
Complete(kind, packet, i, args) ==
    [complete |-> TRUE, args |-> args, kind |-> kind, leftover |-> From(packet, i), err |-> NoErr]

\* index of the first byte ch of b at an index >= i, or -1
RECURSIVE IndexByte(_, _, _)
IndexByte(b, ch, i) ==
    IF i >= Len(b) THEN -1
    ELSE IF At(b, i) = ch THEN i
    ELSE IndexByte(b, ch, i + 1)

RECURSIVE redisArgs(_, _, _, _, _)

\* the body of `if packet[i] == '\n'` of the bulk-length scan: the LF is at
\* lf, n is the result of parseInt, i = lf + 1 is where the payload starts
redisBulk(packet, i, j, count, args, n) ==
    IF ~n.ok THEN Failed(Redis, packet, errInvalidBulkLength)
    ELSE IF Len(packet) - i < n.n + 2 THEN Incomplete(Redis, packet)
    ELSE IF i + n.n < 0 THEN Failed(Redis, packet, Panic)
    ELSE IF At(packet, i + n.n) # "\r" \/ At(packet, i + n.n + 1) # "\n"
    THEN Failed(Redis, packet, errInvalidBulkLength)
    ELSE IF n.n < 0 THEN Failed(Redis, packet, Panic)
    ELSE IF j = count - 1
    THEN Complete(Redis, packet, i + n.n + 2, Append(args, Slice(packet, i, i + n.n)))
    ELSE redisArgs(packet, i + n.n + 2, j + 1, count, Append(args, Slice(packet, i, i + n.n)))

\* the bulk-length scan `for s := i + 1; i < len(packet); i++`, for the
\* first LF at lf (index >= i)
redisBulkScan(packet, i, j, count, args, lf) ==
    IF lf = -1 THEN Incomplete(Redis, packet)
    ELSE IF At(packet, lf - 1) # "\r" THEN Failed(Redis, packet, errInvalidBulkLength)
    ELSE redisBulk(packet, lf + 1, j, count, args, parseInt(Slice(packet, i + 1, lf - 1)))

\* the loop `nextArg: for j := 0; j < count; j++`
redisArgs(packet, i, j, count, args) ==
    IF j >= count THEN Incomplete(Redis, packet)
    ELSE IF i = Len(packet) THEN Incomplete(Redis, packet)
    ELSE IF At(packet, i) # "$" THEN Failed(Redis, packet, errExpectedDollar)
    ELSE redisBulkScan(packet, i, j, count, args, IndexLF(packet, i))

\* the body of `if packet[i] == '\n'` of the count scan
redisCount(packet, lf, count) ==
    IF ~count.ok \/ count.n < 0 THEN Failed(Redis, packet, errInvalidMultiBulkLength)
    ELSE IF count.n = 0 THEN Complete(Redis, packet, lf + 1, <<>>)
    ELSE redisArgs(packet, lf + 1, 0, count.n, <<>>)

\* the Redis branch of ReadNextCommand, for the first LF at lf (index >= 1)
redisCommand(packet, lf) ==
    IF lf = -1 THEN Incomplete(Redis, packet)
    ELSE IF At(packet, lf - 1) # "\r" THEN Failed(Redis, packet, errInvalidMultiBulkLength)
    ELSE redisCount(packet, lf, parseInt(Slice(packet, 1, lf - 1)))

UpperCase ==
    <<"A", "B", "C", "D", "E", "F", "G", "H", "I", "J", "K", "L", "M",
      "N", "O", "P", "Q", "R", "S", "T", "U", "V", "W", "X", "Y", "Z">>
LowerCase ==
    <<"a", "b", "c", "d", "e", "f", "g", "h", "i", "j", "k", "l", "m",
      "n", "o", "p", "q", "r", "s", "t", "u", "v", "w", "x", "y", "z">>

IsUpper(ch) == \E k \in 1..26 : UpperCase[k] = ch

\* strings.ToLower, on ASCII
ToLower(b) ==
    [k \in 1..Len(b) |->
        IF IsUpper(b[k]) THEN LowerCase[CHOOSE u \in 1..26 : UpperCase[u] = b[k]] ELSE b[k]]

\* the `reading:` loop of readTile38Command; returns [args, panic]
RECURSIVE tile38Args(_, _)
tile38Split(line, args, sp) ==
    IF sp = -1
    THEN [args |-> Append(args, line), panic |-> FALSE]
    ELSE tile38Args(From(line, sp + 1),
                    IF sp > 0 THEN Append(args, Slice(line, 0, sp)) ELSE args)

tile38Args(line, args) ==
    IF Len(line) = 0 THEN [args |-> args, panic |-> FALSE]
    ELSE IF line[1] = "{" THEN [args |-> Append(args, line), panic |-> FALSE]
    ELSE IF /\ line[1] = "\"" /\ line[Len(line)] = "\""
            /\ Len(args) > 0
            /\ ToLower(args[1]) = <<"s", "e", "t">>
            /\ ToLower(args[Len(args)]) = <<"s", "t", "r", "i", "n", "g">>
    THEN IF Len(line) = 1
         THEN [args |-> args, panic |-> TRUE]
         ELSE [args |-> Append(args, Slice(line, 1, Len(line) - 1)), panic |-> FALSE]
    ELSE tile38Split(line, args, IndexByte(line, " ", 0))

\* readTile38Command once the payload is there: i is where it starts, n its
\* length, t the result of the `reading:` loop
tile38Line(packet, i, n, t) ==
    IF t.panic THEN Failed(Tile38, packet, Panic)
    ELSE Complete(Tile38, packet, i + n + 2, t.args)

\* the body of `if packet[i] == ' '`, for the space at sp and n = parseInt
tile38Size(packet, sp, n) ==
    IF ~n.ok \/ n.n < 0 THEN Failed(Tile38, packet, errInvalidMessage)
    ELSE IF Len(packet) < sp + 1 + n.n + 2 THEN Incomplete(Tile38, packet)
    ELSE IF At(packet, sp + 1 + n.n) # "\r" \/ At(packet, sp + 1 + n.n + 1) # "\n"
    THEN Failed(Tile38, packet, errInvalidMessage)
    ELSE tile38Line(packet, sp + 1, n.n,
                    tile38Args(Slice(packet, sp + 1, sp + 1 + n.n), <<>>))

tile38Scan(packet, sp) ==
    IF sp = -1 THEN Incomplete(Tile38, packet)
    ELSE tile38Size(packet, sp, parseInt(Slice(packet, 1, sp)))

readTile38Command(packet) == tile38Scan(packet, IndexByte(packet, " ", 1))

\* the tokenizer of readTelnetCommand: the `outer:` loop with its inner loop
\* over line[i]; st = [quote, quotech, escape, args]; returns [args, err]
RECURSIVE telnetLoop(_, _, _, _)
telnetLoop(line, i, nline, st) ==
    IF i >= Len(line)
    THEN IF st.quote THEN [args |-> <<>>, err |-> errUnbalancedQuotes]
         ELSE [args |-> IF Len(line) > 0 THEN Append(st.args, line) ELSE st.args,
               err |-> NoErr]
    ELSE LET c == At(line, i) IN
      IF ~st.quote
      THEN IF c = " "
           THEN telnetLoop(From(line, i + 1), 0, <<>>,
                    IF Len(nline) > 0 THEN [st EXCEPT !.args = Append(@, nline)] ELSE st)
           ELSE IF c \in {"\"", "'"}
           THEN IF i # 0
                THEN [args |-> <<>>, err |-> errUnbalancedQuotes]
                ELSE telnetLoop(From(line, i + 1), 0, <<>>,
                                [st EXCEPT !.quotech = c, !.quote = TRUE])
           ELSE telnetLoop(line, i + 1, Append(nline, c), st)
      ELSE IF st.escape
           THEN LET c2 == CASE c = "n" -> "\n"
                            [] c = "r" -> "\r"
                            [] c = "t" -> "\t"
                            [] OTHER   -> c
                IN telnetLoop(line, i + 1, Append(nline, c2), [st EXCEPT !.escape = FALSE])
           ELSE IF c = st.quotech
           THEN IF i + 1 < Len(line) /\ At(line, i + 1) # " "
                THEN [args |-> <<>>, err |-> errUnbalancedQuotes]
                ELSE telnetLoop(From(line, i + 1), 0, <<>>,
                         [st EXCEPT !.quote = FALSE, !.quotech = "",
                                    !.args = Append(@, nline)])
           ELSE IF c = "\\"
           THEN telnetLoop(line, i + 1, nline, [st EXCEPT !.escape = TRUE])
           ELSE telnetLoop(line, i + 1, Append(nline, c), st)

\* the body of `if packet[i] == '\n'`, for t the result of the tokenizer
telnetLine(packet, lf, t) ==
    IF t.err # NoErr THEN Failed(Telnet, packet, t.err)
    ELSE Complete(Telnet, packet, lf + 1, t.args)

telnetScan(packet, lf) ==
    IF lf = -1 THEN Incomplete(Telnet, packet)
    ELSE telnetLine(packet, lf,
             telnetLoop(IF lf > 0 /\ At(packet, lf - 1) = "\r"
                        THEN Slice(packet, 0, lf - 1) ELSE Slice(packet, 0, lf),
                        0, <<>>,
                        [quote |-> FALSE, quotech |-> "", escape |-> FALSE, args |-> <<>>]))

readTelnetCommand(packet) == telnetScan(packet, IndexLF(packet, 0))

ReadNextCommand(packet) ==
    IF Len(packet) = 0 THEN Incomplete(Redis, packet)
    ELSE IF packet[1] # "*"
    THEN IF packet[1] = "$" THEN readTile38Command(packet) ELSE readTelnetCommand(packet)
    ELSE redisCommand(packet, IndexLF(packet, 1))

(***************************************************************************)
(* AppendAny on an error value                                             *)
(***************************************************************************)
\* unicode.IsSpace on the bytes of the model
WhiteSpace == {" ", "\t", "\n", "\f", "\r"}

\* strings.TrimSpace
TrimSpace(s) ==
    IF \A k \in 1..Len(s) : s[k] \in WhiteSpace THEN <<>>
    ELSE SubSeq(s,
                CHOOSE k \in 1..Len(s) :
                    s[k] \notin WhiteSpace /\ \A j \in 1..(k - 1) : s[j] \in WhiteSpace,
                CHOOSE k \in 1..Len(s) :
                    s[k] \notin WhiteSpace /\ \A j \in (k + 1)..Len(s) : s[j] \in WhiteSpace)

\* strings.Split(msg, " ")[0], for sp the index of the first space or -1
firstWord(msg, sp) == IF sp = -1 THEN msg ELSE Slice(msg, 0, sp)

\* mutant of prefixERRIfNeeded: only a lower-case letter asks for the prefix
prefixERRIfNeeded_NotLower(msg) ==
    LET t == TrimSpace(msg)
        w == firstWord(t, IndexByte(t, " ", 0))
    IN  IF Len(w) = 0 \/ \E k \in 1..Len(w) : \E u \in 1..26 : LowerCase[u] = w[k]
        THEN TrimSpace(<<"E", "R", "R", " ">> \o t)
        ELSE t

prefixERRIfNeeded(msg) ==
    LET t == TrimSpace(msg)
        w == firstWord(t, IndexByte(t, " ", 0))
    IN  IF Len(w) = 0 \/ \E k \in 1..Len(w) : ~IsUpper(w[k])
        THEN TrimSpace(<<"E", "R", "R", " ">> \o t)
        ELSE t

\* AppendAny(b, v) for v an error whose Error() is msg
AppendAny(b, msg) == AppendError(b, prefixERRIfNeeded(msg))

(***************************************************************************)
(* AppendAny on a map with string keys and string values.  The map is the  *)
(* sequence of its [key, value] items in the order MapRange visits them.   *)
(***************************************************************************)
AppendBulkString(b, bulk) == appendPrefix(b, Bulk, Len(bulk)) \o bulk \o CRLF

\* the byte value of a letter
ByteOrd(ch) ==
    IF IsUpper(ch)
    THEN 64 + (CHOOSE u \in 1..26 : UpperCase[u] = ch)
    ELSE 96 + (CHOOSE u \in 1..26 : LowerCase[u] = ch)

\* x < y on Go strings
RECURSIVE strLess(_, _)
strLess(x, y) ==
    IF Len(y) = 0 THEN FALSE
    ELSE IF Len(x) = 0 THEN TRUE
    ELSE IF x[1] # y[1] THEN ByteOrd(x[1]) < ByteOrd(y[1])
    ELSE strLess(Tail(x), Tail(y))

\* mutant of sortItems: the items stay in iteration order
sortItems_IterationOrder(items) == items

\* sort.Slice(strsKeyItems, key <): the keys of a map are distinct, so an
\* item's place is the number of items with a smaller key
sortItems(items) ==
    [p \in 1..Len(items) |->
        items[CHOOSE k \in 1..Len(items) :
                Cardinality({j \in 1..Len(items) : strLess(items[j].key, items[k].key)}) = p - 1]]

\* for _, item := range strsKeyItems
RECURSIVE appendItems(_, _)
appendItems(b, items) ==
    IF items = <<>> THEN b
    ELSE appendItems(AppendBulkString(AppendBulkString(b, items[1].key), items[1].value),
                     Tail(items))

\* AppendAny(b, v) for v a map[string]string
AppendAnyMap(b, items) == appendItems(AppendArray(b, Len(items) * 2), sortItems(items))

(***************************************************************************)
(* The session state machine                                               *)
(***************************************************************************)
Conns == {"c1", "c2"}

\* how many times OnOpen may run in one behaviour
MaxOpens == 2

None == "None"
Close == "Close"
Shutdown == "Shutdown"
Actions == {None, Close, Shutdown}

PING == <<"P", "I", "N", "G">>
SET == <<"S", "E", "T">>
OK == <<"+", "O", "K", "\r", "\n">>

\* what the application's handler may do with one command: the bytes it
\* appends to out, and the action it returns
HandlerResults == {<<OK, None>>, <<OK, Close>>, <<<<>>, Close>>, <<<<>>, Shutdown>>}

\* what the handler does on each of its calls of one event, for a queue of
\* n commands: it is called again only after a call that did not return Close
HandlerRuns(n) ==
    IF n = 0 THEN {<<>>}
    ELSE UNION { { hs \in [1..m -> HandlerResults] :
                     /\ \A i \in 1..(m - 1) : hs[i][2] # Close
                     /\ m < n => hs[m][2] = Close } : m \in 1..n }

\* pipelines of well-formed RESP commands, each command as its argument list
CmdLists ==
    { << <<PING>> >>,
      << <<PING>>, <<PING>> >>,
      << <<<<"A">>>>, <<<<"B">>, <<"k">>>>, <<<<"C">>>> >>,
      << <<SET, <<>>, <<"\r", "\n", "*", "$">>>> >> }

RECURSIVE EncodeAll(_)
EncodeAll(L) == IF L = <<>> THEN <<>> ELSE RespEncode(Head(L)) \o EncodeAll(Tail(L))

BadCount == <<"*", "-", "2", "\r", "\n">>
TwoOfOne == <<"*", "2", "\r", "\n", "$", "3", "\r", "\n", "f", "o", "o", "\r", "\n">>

\* the plain-text line `SET "a b" c` + LF
QuotedLine == <<"S", "E", "T", " ", "\"", "a", " ", "b", "\"", " ", "c", "\n">>

\* RESP frames that are structurally malformed, each with the error
\* parseRESPCommand reports for it
MalformedFrames ==
    { [b |-> BadCount, err |-> errInvalidMultiBulkLength],
      [b |-> <<"*", "x", "\r", "\n">>, err |-> errInvalidMultiBulkLength],
      [b |-> <<"*", "0", "\r", "\n">>, err |-> errInvalidMultiBulkLength],
      [b |-> <<"*", "1", "\n">>, err |-> errInvalidMultiBulkLength],
      [b |-> <<"*", "1", "\r", "\n", "$", "4", "\n">> \o PING \o CRLF,
       err |-> errInvalidBulkLength],
      [b |-> <<"*", "1", "\r", "\n", "$", "x", "\r", "\n">>, err |-> errInvalidBulkLength],
      [b |-> <<"*", "1", "\r", "\n", "$", "-", "1", "\r", "\n">>,
       err |-> errInvalidBulkLength],
      [b |-> <<"*", "1", "\r", "\n", "$", "4", "\r", "\n">> \o PING \o <<"x", "x">>,
       err |-> errInvalidBulkLength],
      [b |-> RespEncode(<<PING>>) \o BadCount, err |-> errInvalidMultiBulkLength] }

\* a RESP frame whose only element slot starts with '+' instead of '$'
WrongMarker == <<"*", "1", "\r", "\n", "+">> \o PING \o CRLF

KEY == <<"k", "e", "y">>
VALUE == <<"v", "a", "l", "u", "e">>

\* the native-dialect line frame `$13 SET key value` + CRLF
NativeLine ==
    <<"$", "1", "3", " ">> \o SET \o <<" ">> \o KEY \o <<" ">> \o VALUE \o CRLF

\* plain-text lines that end while a quote is open: `SET "a` and `"a b`
UnterminatedLines ==
    { <<"S", "E", "T", " ", "\"", "a", "\n">>,
      <<"\"", "a", " ", "b", "\n">>,
      <<"'", "a", "\r", "\n">> }

\* plain-text lines that are blank or hold only spaces, terminator included
BlankLines == { <<"\n">>, <<"\r", "\n">>, <<" ", " ", "\n">> }

\* byte streams a client may send on a connection
Streams ==
    { EncodeAll(L) : L \in CmdLists } \cup
    { TwoOfOne,
      BadCount,
      RespEncode(<<PING>>) \o BadCount,
      BadCount \o RespEncode(<<PING>>),
      <<"G", "E", "T", " ", "k", "\r", "\n">> \o RespEncode(<<PING>>),
      QuotedLine,
      WrongMarker,
      NativeLine } \cup
    { m.b : m \in MalformedFrames } \cup
    UnterminatedLines \cup
    { line \o RespEncode(<<PING>>) : line \in BlankLines } \cup
    { <<" ", " ", "\n">>, <<"\"", "\"", "\n">> }

\* the second connection is a client with short exchanges
StreamsOf(c) ==
    IF c = "c1" THEN Streams ELSE {RespEncode(<<PING>>)}

VARIABLES
    redHubBufMap,   \* rs.redHubBufMap: connection -> connBuffer [buf, command]
    connState,      \* per connection: "closed", "open", "closing" (the event
                    \* returned Close, the engine closes it), "framing" (its
                    \* worker is inside a ReadCommands call that never returns)
    wire,           \* per connection: bytes the client sent, not yet read
    serving,        \* the engine is running (no event returned Shutdown)
    opens,          \* number of OnOpen events so far
    recv,           \* history: bytes read on the connection since it opened
    framed,         \* history: commands appended to the pending queue
    calls,          \* history: commands passed to the handler
    discarded,      \* history: the pending queue of the entry the last
                    \* OnClose of the connection removed from the table
    ev,             \* the last event and what it did
    connSync,       \* rs.connSync (sync.RWMutex): [w, r], the holder of the
                    \* write lock ("none" if free) and the holders of read locks
    pc,             \* per connection: where its worker is inside a callback
                    \* ("idle" between callbacks)
    ok,             \* per connection: `ok` of `cb, ok := rs.redHubBufMap[c]`
    codec,          \* the last call of a function of the codec (pkg/resp):
                    \* its arguments and what it returned
    running,        \* rs.running
    engine,         \* rs.engine: 0 for the zero gnet.Engine, r for the
                    \* Engine that the r-th gnet.Run passed to OnBoot
    engineState,    \* the gnet.Run of the current ListenAndServe call:
                    \* "none" (no call in progress), "starting", "serving",
                    \* "stopped" (Run is returning), "crashed" (a panic
                    \* ended the process)
    runs,           \* number of ListenAndServe calls so far
    closes,         \* number of Close calls so far
    stops,          \* history: per run, the engine stops requested in it
    closed,         \* history: the runs in which a Close found running set
    closeEv,        \* the last Close call and what it did
    store,          \* the backing array of one connection's cb.buf
    bufLen,         \* cb.buf.Len(): the bytes of store that are buffered
    kept,           \* the commands the handler was called with and kept:
                    \* [shared, lo, raw, args, marks], raw and args as they
                    \* were at the call; a shared command's Raw is the slice
                    \* of store that starts at lo, its Args the slices of
                    \* Raw at marks; the other commands have their own arrays
    memEvents,      \* number of data-arrival events at this connection
    framing         \* the event is inside a ReadCommands that never returns

lockVars == <<connSync, pc, ok>>

lifeVars == <<running, engine, engineState, runs, closes, stops, closed, closeEv>>

memVars == <<store, bufLen, kept, memEvents, framing>>

vars == <<redHubBufMap, connState, wire, serving, opens, recv, framed, calls,
          discarded, ev, lockVars, codec, lifeVars, memVars>>

\* bounds of the server life cycle
MaxRuns == 2
MaxCloses == 3

\* no Close call yet
NoClose == [found |-> FALSE, err |-> "none", stop |-> FALSE]

NoRC == [returns |-> TRUE, cmds |-> <<>>, leftover |-> <<>>, err |-> NoErr]

NoEvent ==
    [kind |-> "init", conn |-> "c1", chunk |-> <<>>, acc |-> <<>>, pre |-> <<>>,
     rc |-> NoRC, handled |-> <<>>, writes |-> <<>>, action |-> None,
     returned |-> TRUE]

\* no call of the codec yet
NoCall ==
    [op |-> "none", arg |-> <<>>, num |-> 0, out |-> <<>>, r |-> NoValue,
     cmd |-> Incomplete(Redis, <<>>)]

\* new(connBuffer)
NewConnBuffer == [buf |-> <<>>, command |-> <<>>]

Init ==
    /\ redHubBufMap = << >>
    /\ connState = [c \in Conns |-> "closed"]
    /\ wire = [c \in Conns |-> <<>>]
    /\ serving = TRUE
    /\ opens = 0
    /\ recv = [c \in Conns |-> <<>>]
    /\ framed = [c \in Conns |-> <<>>]
    /\ calls = [c \in Conns |-> <<>>]
    /\ discarded = [c \in Conns |-> <<>>]
    /\ ev = NoEvent
    /\ connSync = [w |-> "none", r |-> {}]
    /\ pc = [c \in Conns |-> "idle"]
    /\ ok = [c \in Conns |-> FALSE]
    /\ codec = NoCall
    /\ running = FALSE
    /\ engine = 0
    /\ engineState = "none"
    /\ runs = 0
    /\ closes = 0
    /\ stops = [r \in 0..(MaxRuns + 1) |-> 0]
    /\ closed = {}
    /\ closeEv = NoClose
    /\ store = <<>>
    /\ bufLen = 0
    /\ kept = <<>>
    /\ memEvents = 0
    /\ framing = FALSE

\* what the engine does with the action an event returns
AfterAction(c, action, st) ==
    /\ connState' = [connState EXCEPT ![c] = IF action = Close THEN "closing" ELSE st]
    /\ serving' = (action # Shutdown)

\* mutant of MapPut: the table is left as it was
MapPut_NoInsert(m, c, v) == m

\* rs.redHubBufMap[c] = v
MapPut(m, c, v) == [x \in (DOMAIN m) \cup {c} |-> IF x = c THEN v ELSE m[x]]

\* mutant of MapDelete: the delete empties the table
MapDelete_All(m, c) == << >>

\* delete(rs.redHubBufMap, c)
MapDelete(m, c) == [x \in (DOMAIN m) \ {c} |-> m[x]]

\* mutant of OnOpen: a connection opened again takes up the queue its last
\* session left
OnOpen_Resume(c) ==
    /\ serving
    /\ connState[c] = "closed"
    /\ opens < MaxOpens
    /\ \E action \in Actions, stream \in StreamsOf(c) :
         /\ redHubBufMap' = MapPut(redHubBufMap, c,
                                  [buf |-> <<>>, command |-> discarded[c]])
         /\ AfterAction(c, action, "open")
         /\ wire' = [wire EXCEPT ![c] = stream]
         /\ ev' = [NoEvent EXCEPT !.kind = "open", !.conn = c, !.action = action]
    /\ opens' = opens + 1
    /\ recv' = [recv EXCEPT ![c] = <<>>]
    /\ framed' = [framed EXCEPT ![c] = <<>>]
    /\ calls' = [calls EXCEPT ![c] = <<>>]
    /\ UNCHANGED <<discarded, lockVars, codec, lifeVars, memVars>>

OnOpen(c) ==
    /\ serving
    /\ connState[c] = "closed"
    /\ opens < MaxOpens
    /\ \E action \in Actions, stream \in StreamsOf(c) :
         /\ redHubBufMap' = MapPut(redHubBufMap, c, NewConnBuffer)
         /\ AfterAction(c, action, "open")
         /\ wire' = [wire EXCEPT ![c] = stream]
         /\ ev' = [NoEvent EXCEPT !.kind = "open", !.conn = c, !.action = action]
    /\ opens' = opens + 1
    /\ recv' = [recv EXCEPT ![c] = <<>>]
    /\ framed' = [framed EXCEPT ![c] = <<>>]
    /\ calls' = [calls EXCEPT ![c] = <<>>]
    /\ UNCHANGED <<discarded, lockVars, codec, lifeVars, memVars>>

OnClose(c) ==
    /\ serving
    /\ connState[c] \in {"open", "closing"}
    /\ \E action \in {None, Shutdown} :
         /\ redHubBufMap' = MapDelete(redHubBufMap, c)
         /\ AfterAction(c, action, "closed")
         /\ ev' = [NoEvent EXCEPT !.kind = "close", !.conn = c, !.action = action]
    /\ wire' = [wire EXCEPT ![c] = <<>>]
    /\ recv' = [recv EXCEPT ![c] = <<>>]
    /\ framed' = [framed EXCEPT ![c] = <<>>]
    /\ calls' = [calls EXCEPT ![c] = <<>>]
    /\ discarded' = [discarded EXCEPT
                       ![c] = IF c \in DOMAIN redHubBufMap
                              THEN redHubBufMap[c].command ELSE @]
    /\ UNCHANGED <<opens, lockVars, codec, lifeVars, memVars>>

\* rs.handler(cmd, out) for an application whose handler does h = <<reply,
\* action>> with this command: it returns (out ++ reply, action)
handler(cmd, out, h) == [out |-> out \o h[1], status |-> h[2]]

\* mutant of dispatch: commands are taken from the back of the queue
RECURSIVE dispatch_FromBack(_, _, _, _)
dispatch_FromBack(command, hs, out, handled) ==
    IF Len(command) = 0
    THEN [command |-> command, out |-> out, handled |-> handled, closed |-> FALSE]
    ELSE LET cmd  == command[Len(command)]
             rest == SubSeq(command, 1, Len(command) - 1)
             r    == handler(cmd, out, hs[Len(handled) + 1])
             done == Append(handled, [cmd |-> cmd, out |-> r.out, status |-> r.status])
         IN  IF r.status = Close
             THEN [command |-> rest, out |-> r.out, handled |-> done, closed |-> TRUE]
             ELSE dispatch_FromBack(rest, hs, r.out, done)

\* mutant of dispatch: on Close the loop returns without the output
RECURSIVE dispatch_NoFlush(_, _, _, _)
dispatch_NoFlush(command, hs, out, handled) ==
    IF Len(command) = 0
    THEN [command |-> command, out |-> out, handled |-> handled, closed |-> FALSE]
    ELSE LET cmd  == command[1]
             rest == Tail(command)
             r    == handler(cmd, out, hs[Len(handled) + 1])
             done == Append(handled, [cmd |-> cmd, out |-> r.out, status |-> r.status])
         IN  IF r.status = Close
             THEN [command |-> rest, out |-> <<>>, handled |-> done, closed |-> TRUE]
             ELSE dispatch_NoFlush(rest, hs, r.out, done)

\* the dispatch loop `for len(cb.command) > 0` of OnTraffic; hs[n] is what
\* the handler does on its n-th call of the event.  Returns the queue that
\* is left, the output accumulator, the calls made (the command passed, and
\* the out and status the handler returned) and whether the loop ended on
\* `status == Close`.
RECURSIVE dispatch(_, _, _, _)
dispatch(command, hs, out, handled) ==
    IF Len(command) = 0
    THEN [command |-> command, out |-> out, handled |-> handled, closed |-> FALSE]
    ELSE LET cmd  == command[1]
             rest == Tail(command)
             r    == handler(cmd, out, hs[Len(handled) + 1])
             done == Append(handled, [cmd |-> cmd, out |-> r.out, status |-> r.status])
         IN  IF r.status = Close
             THEN [command |-> rest, out |-> r.out, handled |-> done, closed |-> TRUE]
             ELSE dispatch(rest, hs, r.out, done)

\* `if len(out) > 0 { c.Write(out) }`
WriteIfAny(out) == IF Len(out) > 0 THEN <<out>> ELSE <<>>

\* mutant of TrafficNoEntry: the connection gets an entry
TrafficNoEntry_Insert(c) ==
    /\ ev' = [NoEvent EXCEPT !.kind = "traffic", !.conn = c, !.pre = <<>>,
                !.writes = <<AppendError(<<>>,
                    <<"E", "R", "R", " ", "C", "l", "i", "e", "n", "t", " ", "i", "s",
                      " ", "c", "l", "o", "s", "e", "d">>)>>]
    /\ AfterAction(c, None, connState[c])
    /\ redHubBufMap' = MapPut(redHubBufMap, c, NewConnBuffer)
    /\ UNCHANGED <<wire, recv, framed, calls>>

\* OnTraffic, connection not in the table
TrafficNoEntry(c) ==
    /\ ev' = [NoEvent EXCEPT !.kind = "traffic", !.conn = c, !.pre = <<>>,
                !.writes = <<AppendError(<<>>,
                    <<"E", "R", "R", " ", "C", "l", "i", "e", "n", "t", " ", "i", "s",
                      " ", "c", "l", "o", "s", "e", "d">>)>>]
    /\ AfterAction(c, None, connState[c])
    /\ UNCHANGED <<redHubBufMap, wire, recv, framed, calls>>

\* mutant of TrafficError: a protocol error closes the connection
TrafficError_Close(c, acc, rc, e0) ==
    /\ redHubBufMap' = [redHubBufMap EXCEPT ![c].buf = acc]
    /\ ev' = [e0 EXCEPT !.writes = <<AppendError(<<>>,
                            <<"E", "R", "R", " ">> \o ErrorText(rc.err))>>,
                        !.action = Close]
    /\ AfterAction(c, Close, "open")
    /\ UNCHANGED <<framed, calls>>

\* OnTraffic, the `if err != nil` branch
TrafficError(c, acc, rc, e0) ==
    /\ redHubBufMap' = [redHubBufMap EXCEPT ![c].buf = acc]
    /\ ev' = [e0 EXCEPT !.writes = <<AppendError(<<>>,
                            <<"E", "R", "R", " ">> \o ErrorText(rc.err))>>]
    /\ AfterAction(c, None, "open")
    /\ UNCHANGED <<framed, calls>>

\* OnTraffic from `cmds, lastbyte, err := resp.ReadCommands(cb.buf.Bytes())` on:
\* acc is cb.buf after cb.buf.Write(buf), rc the result of ReadCommands, e0
\* the event so far
TrafficFramed(c, cb, acc, rc, e0) ==
    IF ~rc.returns
    THEN \* ReadCommands does not come back
         /\ redHubBufMap' = [redHubBufMap EXCEPT ![c].buf = acc]
         /\ ev' = [e0 EXCEPT !.returned = FALSE]
         /\ AfterAction(c, None, "framing")
         /\ UNCHANGED <<framed, calls>>
    ELSE IF rc.err # NoErr
    THEN TrafficError(c, acc, rc, e0)
    ELSE /\ framed' = [framed EXCEPT ![c] = @ \o rc.cmds]
         /\ IF Len(rc.leftover) = 0
            THEN \E hs \in HandlerRuns(Len(cb.command \o rc.cmds)) :
                   LET d == dispatch(cb.command \o rc.cmds, hs, <<>>, <<>>) IN
                   /\ redHubBufMap' =
                        [redHubBufMap EXCEPT ![c] = [buf |-> <<>>, command |-> d.command]]
                   /\ calls' = [calls EXCEPT
                                  ![c] = @ \o [n \in 1..Len(d.handled) |-> d.handled[n].cmd]]
                   /\ ev' = [e0 EXCEPT !.handled = d.handled,
                                       !.writes = WriteIfAny(d.out),
                                       !.action = IF d.closed THEN Close ELSE None]
                   /\ AfterAction(c, IF d.closed THEN Close ELSE None, "open")
            ELSE /\ redHubBufMap' =
                      [redHubBufMap EXCEPT
                         ![c] = [buf |-> rc.leftover, command |-> cb.command \o rc.cmds]]
                 /\ ev' = e0
                 /\ AfterAction(c, None, "open")
                 /\ UNCHANGED calls

\* OnTraffic after the table lookup found cb and `buf, _ := c.Next(-1)`
\* returned buf
TrafficBuf(c, cb, buf, rc) ==
    /\ recv' = [recv EXCEPT ![c] = @ \o buf]
    /\ IF Len(buf) = 0
       THEN /\ ev' = [NoEvent EXCEPT !.kind = "traffic", !.conn = c, !.pre = cb.command]
            /\ AfterAction(c, None, "open")
            /\ UNCHANGED <<redHubBufMap, framed, calls>>
       ELSE TrafficFramed(c, cb, cb.buf \o buf, rc,
                [NoEvent EXCEPT !.kind = "traffic", !.conn = c, !.chunk = buf,
                                !.pre = cb.command, !.acc = cb.buf \o buf, !.rc = rc])

\* k bytes of what the client sent have arrived
TrafficRead(c, k) ==
    /\ wire' = [wire EXCEPT ![c] = From(wire[c], k)]
    /\ TrafficBuf(c, redHubBufMap[c], Slice(wire[c], 0, k),
                  ReadCommands(redHubBufMap[c].buf \o Slice(wire[c], 0, k)))

\* the engine reports readable data on c; k bytes of what the client sent
\* have arrived.  The callback may also be called for a connection that was
\* not opened, or was closed before.
OnTraffic(c) ==
    /\ serving
    /\ connState[c] \in {"open", "closed"}
    /\ IF c \notin DOMAIN redHubBufMap
       THEN TrafficNoEntry(c)
       ELSE \E k \in 0..Len(wire[c]) : TrafficRead(c, k)
    /\ UNCHANGED <<opens, discarded, lockVars, codec, lifeVars, memVars>>

Next == \E c \in Conns : OnOpen(c) \/ OnTraffic(c) \/ OnClose(c)

Spec == Init /\ [][Next]_vars

(***************************************************************************)
(* The callbacks step by step, for the locking of the connection table.    *)
(* Each connection is served by one worker (event loop), which runs the    *)
(* callbacks of that connection one after another; the workers of          *)
(* different connections interleave at every step below.                   *)
(***************************************************************************)
sessionVars == <<connState, wire, serving, opens, recv, framed, calls, discarded, ev>>

\* rs.connSync.Lock(): waits until no worker holds the lock in either mode
Lock(c) ==
    /\ connSync.w = "none"
    /\ connSync.r = {}
    /\ connSync' = [connSync EXCEPT !.w = c]

\* rs.connSync.Unlock()
Unlock(c) == connSync' = [connSync EXCEPT !.w = "none"]

\* mutant of RLock: the read lock is taken while a writer holds the lock
RLock_NoWait(c) == connSync' = [connSync EXCEPT !.r = @ \cup {c}]

\* rs.connSync.RLock(): waits until no worker holds the write lock
RLock(c) ==
    /\ connSync.w = "none"
    /\ connSync' = [connSync EXCEPT !.r = @ \cup {c}]

\* rs.connSync.RUnlock()
RUnlock(c) == connSync' = [connSync EXCEPT !.r = @ \ {c}]

\* the worker of c goes from one place of a callback to the next
Goto(c, from, to) ==
    /\ pc[c] = from
    /\ pc' = [pc EXCEPT ![c] = to]

OnOpen_Lock(c) ==
    /\ serving
    /\ connState[c] = "closed"
    /\ opens < MaxOpens
    /\ Goto(c, "idle", "open_put")
    /\ Lock(c)
    /\ opens' = opens + 1
    /\ UNCHANGED <<redHubBufMap, connState, wire, serving, recv, framed, calls,
                   discarded, ev, ok, codec, lifeVars, memVars>>

OnOpen_Put(c) ==
    /\ Goto(c, "open_put", "open_unlock")
    /\ redHubBufMap' = MapPut(redHubBufMap, c, NewConnBuffer)
    /\ UNCHANGED <<sessionVars, connSync, ok, codec, lifeVars, memVars>>

OnOpen_Unlock(c) ==
    /\ Goto(c, "open_unlock", "open_callback")
    /\ Unlock(c)
    /\ UNCHANGED <<redHubBufMap, sessionVars, ok, codec, lifeVars, memVars>>

\* rs.onOpened(&Conn{Conn: c}) and the return of OnOpen
OnOpen_onOpened(c) ==
    /\ Goto(c, "open_callback", "idle")
    /\ \E action \in Actions :
         /\ AfterAction(c, action, "open")
         /\ ev' = [NoEvent EXCEPT !.kind = "open", !.conn = c, !.action = action]
    /\ wire' = [wire EXCEPT ![c] = RespEncode(<<PING>>)]
    /\ recv' = [recv EXCEPT ![c] = <<>>]
    /\ framed' = [framed EXCEPT ![c] = <<>>]
    /\ calls' = [calls EXCEPT ![c] = <<>>]
    /\ UNCHANGED <<redHubBufMap, opens, discarded, connSync, ok, codec, lifeVars, memVars>>

OnClose_Lock(c) ==
    /\ serving
    /\ connState[c] \in {"open", "closing"}
    /\ Goto(c, "idle", "close_delete")
    /\ Lock(c)
    /\ UNCHANGED <<redHubBufMap, sessionVars, ok, codec, lifeVars, memVars>>

OnClose_Delete(c) ==
    /\ Goto(c, "close_delete", "close_unlock")
    /\ redHubBufMap' = MapDelete(redHubBufMap, c)
    /\ discarded' = [discarded EXCEPT
                       ![c] = IF c \in DOMAIN redHubBufMap
                              THEN redHubBufMap[c].command ELSE @]
    /\ UNCHANGED <<connState, wire, serving, opens, recv, framed, calls, ev,
                   connSync, ok, codec, lifeVars, memVars>>

OnClose_Unlock(c) ==
    /\ Goto(c, "close_unlock", "close_callback")
    /\ Unlock(c)
    /\ UNCHANGED <<redHubBufMap, sessionVars, ok, codec, lifeVars, memVars>>

\* rs.onClosed(&Conn{Conn: c}, err) and the return of OnClose
OnClose_onClosed(c) ==
    /\ Goto(c, "close_callback", "idle")
    /\ \E action \in {None, Shutdown} :
         /\ AfterAction(c, action, "closed")
         /\ ev' = [NoEvent EXCEPT !.kind = "close", !.conn = c, !.action = action]
    /\ wire' = [wire EXCEPT ![c] = <<>>]
    /\ recv' = [recv EXCEPT ![c] = <<>>]
    /\ framed' = [framed EXCEPT ![c] = <<>>]
    /\ calls' = [calls EXCEPT ![c] = <<>>]
    /\ UNCHANGED <<redHubBufMap, opens, discarded, connSync, ok, codec, lifeVars, memVars>>

OnTraffic_RLock(c) ==
    /\ serving
    /\ connState[c] = "open"
    /\ Goto(c, "idle", "traffic_lookup")
    /\ RLock(c)
    /\ UNCHANGED <<redHubBufMap, sessionVars, ok, codec, lifeVars, memVars>>

\* cb, ok := rs.redHubBufMap[c]
OnTraffic_Lookup(c) ==
    /\ Goto(c, "traffic_lookup", "traffic_runlock")
    /\ ok' = [ok EXCEPT ![c] = (c \in DOMAIN redHubBufMap)]
    /\ UNCHANGED <<redHubBufMap, sessionVars, connSync, codec, lifeVars, memVars>>

OnTraffic_RUnlock(c) ==
    /\ Goto(c, "traffic_runlock", "traffic_rest")
    /\ RUnlock(c)
    /\ UNCHANGED <<redHubBufMap, sessionVars, ok, codec, lifeVars, memVars>>

\* OnTraffic from `if !ok` to its return, with all the bytes the client sent
OnTraffic_Rest(c) ==
    /\ Goto(c, "traffic_rest", "idle")
    /\ IF ~ok[c]
       THEN TrafficNoEntry(c)
       ELSE TrafficRead(c, Len(wire[c]))
    /\ UNCHANGED <<opens, discarded, connSync, ok, codec, lifeVars, memVars>>

LockNext ==
    \E c \in Conns :
        \/ OnOpen_Lock(c) \/ OnOpen_Put(c) \/ OnOpen_Unlock(c) \/ OnOpen_onOpened(c)
        \/ OnClose_Lock(c) \/ OnClose_Delete(c) \/ OnClose_Unlock(c) \/ OnClose_onClosed(c)
        \/ OnTraffic_RLock(c) \/ OnTraffic_Lookup(c) \/ OnTraffic_RUnlock(c)
        \/ OnTraffic_Rest(c)

LockSpec == Init /\ [][LockNext]_vars

(***************************************************************************)
(* The codec: a step calls a function of pkg/resp with arguments drawn     *)
(* from bounded sets and records what it returned.  The functions keep no  *)
(* state between calls, so a behaviour makes one call.                     *)
(***************************************************************************)
serverVars == <<redHubBufMap, sessionVars, lockVars, lifeVars, memVars>>

\* longest payload and message, and largest array count, of the calls
MaxBulkLen == 3
MaxCount == 2

\* the byte strings of at most n bytes over the alphabet A
BytesUpTo(A, n) == UNION { [1..k -> A] : k \in 0..n }

\* payloads: letters, CR, LF and a type marker
Payloads == BytesUpTo({"a", "\r", "\n", "$"}, MaxBulkLen)

\* integers written: one digit, several digits, negative, the extremes of
\* the integers of the model
IntSamples == {0 - 2147483647, 0 - 120, 0 - 10, 0 - 9, 0 - 1, 0, 5, 9, 10, 42, 1000, 2147483647}

\* encoded values used as the elements of an array
Elements ==
    { AppendInt(<<>>, 7), AppendBulk(<<>>, <<"a", "\r", "\n">>), AppendNull(<<>>),
      AppendString(<<>>, <<"O", "K">>), AppendArray(<<>>, 0),
      AppendArray(<<>>, 1) \o AppendInt(<<>>, 0 - 1) }

RECURSIVE Flatten(_)
Flatten(ss) == IF ss = <<>> THEN <<>> ELSE Head(ss) \o Flatten(Tail(ss))

\* the record of a write followed by ReadNextRESP of what was written
Written(op, arg, num, out) ==
    [op |-> op, arg |-> arg, num |-> num, out |-> out, r |-> ReadNextRESP(out),
     cmd |-> Incomplete(Redis, <<>>)]

Call_AppendInt ==
    /\ codec.op = "none"
    /\ \E n \in IntSamples : codec' = Written("AppendInt", <<>>, n, AppendInt(<<>>, n))
    /\ UNCHANGED serverVars

Call_AppendBulk ==
    /\ codec.op = "none"
    /\ \E x \in Payloads : codec' = Written("AppendBulk", x, 0, AppendBulk(<<>>, x))
    /\ UNCHANGED serverVars

\* AppendArray(nil, k) followed by k encoded values
Call_AppendArray ==
    /\ codec.op = "none"
    /\ \E k \in 0..MaxCount : \E es \in [1..k -> Elements] :
         codec' = Written("AppendArray", Flatten(es), k, AppendArray(<<>>, k) \o Flatten(es))
    /\ UNCHANGED serverVars

\* the strict prefixes of a byte slice, the empty one included
StrictPrefixes(v) == { SubSeq(v, 1, k) : k \in 0..(Len(v) - 1) }

Call_AppendString ==
    /\ codec.op = "none"
    /\ \E x \in Payloads : codec' = Written("AppendString", x, 0, AppendString(<<>>, x))
    /\ UNCHANGED serverVars

Call_AppendError ==
    /\ codec.op = "none"
    /\ \E x \in Payloads : codec' = Written("AppendError", x, 0, AppendError(<<>>, x))
    /\ UNCHANGED serverVars

\* well-formed encoded values
WellFormed ==
    Elements \cup
    { AppendInt(<<>>, 0 - 12),
      AppendError(<<>>, <<"E", "R", "R", " ", "x">>),
      AppendBulk(<<>>, <<>>),
      AppendBulk(<<>>, <<"0", "1", "2", "3", "4", "5", "6", "7", "8", "9">>),
      AppendArray(<<>>, 2) \o AppendInt(<<>>, 7) \o AppendBulk(<<>>, <<"a", "\r", "\n">>),
      AppendArray(<<>>, 2) \o AppendArray(<<>>, 1) \o AppendNull(<<>>)
          \o AppendString(<<>>, <<"O", "K">>) }

\* headers with a negative length other than -1
NegativeLengths == { <<"$", "-", "5", "\r", "\n">>, <<"*", "-", "5", "\r", "\n">> }

\* inputs that hold no value: a first byte that is no type marker, header
\* lines whose LF has no CR before it, Integers that are not -?[0-9]+
Invalid ==
    { <<"x">>, <<"a", "\r", "\n">>, <<"\r", "\n">>,
      <<":", "1", "\n">>, <<"+", "O", "K", "\n">>, <<":", "\n">>,
      <<"$", "1", "\n", "a", "\r", "\n">>, <<"*", "1", "\n", ":", "1", "\r", "\n">>,
      <<":", "\r", "\n">>, <<":", "-", "\r", "\n">>, <<":", "1", "a", "\r", "\n">>,
      <<":", "+", "1", "\r", "\n">>, <<":", "1", "-", "\r", "\n">>,
      <<":", " ", "1", "\r", "\n">>, <<":", "-", "-", "1", "\r", "\n">> }

\* Bulks cut short: a length line for L, small and up to the largest int,
\* followed by fewer than L + 2 bytes
BulkLengths == {5, 1000, MaxInt - 12, MaxInt - 6, MaxInt - 1, MaxInt}
ShortBulks ==
    { <<"$">> \o Itoa(L) \o CRLF \o t :
        L \in BulkLengths, t \in {<<>>, <<"a", "b">>, <<"a", "b", "\r", "\n">>} }

\* the byte slices ReadNextRESP is called with: every prefix of a
\* well-formed value (the value itself and the empty slice included), a
\* well-formed value followed by more bytes, and the slices above
ReadInputs ==
    ShortBulks \cup
    UNION { StrictPrefixes(v) : v \in WellFormed } \cup
    WellFormed \cup
    { v \o <<":">> : v \in WellFormed } \cup
    NegativeLengths \cup
    Invalid

Call_ReadNextRESP ==
    /\ codec.op = "none"
    /\ \E b \in ReadInputs : codec' = Written("ReadNextRESP", b, 0, b)
    /\ UNCHANGED serverVars

\* well-formed commands of the three dialects: Redis arrays of bulks (one
\* with CR, LF and '$' in a payload, one with no arguments), Tile38 native
\* lines (plain, JSON, quoted string value), Telnet lines (LF and CRLF ended,
\* quoted)
Commands ==
    { RespEncode(<<PING>>),
      RespEncode(<<SET, KEY, VALUE>>),
      RespEncode(<<<<"a", "\r", "\n", "$">>, <<>>>>),
      <<"*", "0", "\r", "\n">>,
      NativeLine,
      <<"$", "3", " ", "{", "a", "}", "\r", "\n">>,
      <<"$", "1", "8", " ", "s", "e", "t", " ", "k", " ", "s", "t", "r", "i", "n", "g",
        " ", "\"", "a", " ", "b", "\"", "\r", "\n">>,
      PING \o <<"\n">>,
      SET \o <<" ">> \o KEY \o <<" ">> \o VALUE \o CRLF,
      QuotedLine }

\* packets that hold no command of their dialect
BadPackets ==
    { WrongMarker, BadCount, TwoOfOne \o <<"+">>,
      <<"*", "1", "\n">>,
      <<"*", "1", "\r", "\n", "$", "1", "\r", "\n", "a", "b", "\r", "\n">>,
      <<"$", "x", " ", "a", "\r", "\n">>,
      <<"$", "-", "1", " ", "\r", "\n">>,
      <<"$", "1", " ", "a", "b", "\r", "\n">>,
      <<"$", "1", "2", " ", "s", "e", "t", " ", "s", "t", "r", "i", "n", "g", " ", "\"",
        "\r", "\n">>,
      <<"a", "\"", "b", "\n">>, <<"\"", "a", "\"", "b", "\n">> } \cup
    UnterminatedLines

\* Redis packets with an argument of negative declared length
NegativeBulks ==
    { <<"*", "1", "\r", "\n", "$", "-", "2", "\r", "\n">>,
      <<"*", "1", "\r", "\n", "$", "-", "1", "\r", "\n">>,
      <<"*", "1", "\r", "\n", "$", "-", "5", "\r", "\n">>,
      <<"*", "1", "\r", "\n", "$", "-", "1", "2", "\r", "\n", "a", "b">>,
      <<"*", "2", "\r", "\n", "$", "1", "\r", "\n", "a", "\r", "\n",
        "$", "-", "3", "\r", "\n", "x", "\r", "\n">> }

\* frames that hold no argument: a Redis array of no bulks, Tile38 lines with
\* an empty and a blank payload, blank Telnet lines
EmptyCommands ==
    { <<"*", "0", "\r", "\n">>,
      <<"$", "0", " ", "\r", "\n">>,
      <<"$", "2", " ", " ", " ", "\r", "\n">> } \cup
    BlankLines

\* Tile38 payloads [head, rest]: the arguments head, then the remainder
\* rest, which starts with '{' or begins and ends with a double quote
\* after SET ... STRING in any case: with text, with nothing, with a quote
\* and with a space between the quotes, and the remainder that is one quote
NativeCases ==
    { [head |-> <<<<"s", "e", "t">>, <<"k">>, <<"s", "t", "r", "i", "n", "g">>>>,
       rest |-> <<"\"", "a", " ", "b", "\"">>],
      [head |-> <<<<"S", "E", "T">>, <<"S", "T", "R", "I", "N", "G">>>>,
       rest |-> <<"\"", "\"">>],
      [head |-> <<<<"S", "e", "t">>, <<"k">>, <<"S", "t", "r", "i", "n", "g">>>>,
       rest |-> <<"\"", "a", "\"", " ", "\"">>],
      [head |-> <<<<"s", "e", "t">>, <<"s", "t", "r", "i", "n", "g">>>>,
       rest |-> <<"\"">>],
      [head |-> <<<<"s", "e", "t">>, <<"k">>>>,
       rest |-> <<"{", "\"", "a", "\"", ":", " ", "1", "}", " ", "x">>],
      [head |-> <<>>,
       rest |-> <<"{", "}">>] }

\* the arguments w, each followed by a space
RECURSIVE Spaced(_)
Spaced(w) == IF w = <<>> THEN <<>> ELSE Head(w) \o <<" ">> \o Spaced(Tail(w))

\* the Tile38 frame of the payload t: '$', its size, a space, it, CRLF
NativePacket(t) ==
    <<"$">> \o Itoa(Len(Spaced(t.head) \o t.rest)) \o <<" ">>
        \o Spaced(t.head) \o t.rest \o CRLF

\* the packets ReadNextCommand is called with: every prefix of a well-formed
\* command (the command itself and the empty packet included), a command
\* followed by the start of the next one, and the packets above
CommandInputs ==
    { NativePacket(t) \o x : t \in NativeCases, x \in {<<>>, <<"*">>} } \cup
    NegativeBulks \cup
    EmptyCommands \cup
    UNION { StrictPrefixes(v) : v \in Commands } \cup
    Commands \cup
    { v \o w : v \in Commands, w \in {<<"*">>, <<"$">>, <<"P">>} } \cup
    BadPackets

Call_ReadNextCommand ==
    /\ codec.op = "none"
    /\ \E p \in CommandInputs :
         codec' = [op |-> "ReadNextCommand", arg |-> p, num |-> 0, out |-> <<>>,
                   r |-> NoValue, cmd |-> ReadNextCommand(p)]
    /\ UNCHANGED serverVars

\* error messages: upper-case and lower-case letters, a digit, a space and
\* a LF, in every order
MaxMsgLen == 4
Messages == BytesUpTo({"E", "R", "e", "1", " ", "\n"}, MaxMsgLen)

Call_prefixERRIfNeeded ==
    /\ codec.op = "none"
    /\ \E msg \in Messages :
         codec' = [op |-> "prefixERRIfNeeded", arg |-> msg, num |-> 0,
                   out |-> prefixERRIfNeeded(msg), r |-> NoValue,
                   cmd |-> Incomplete(Redis, <<>>)]
    /\ UNCHANGED serverVars

Call_AppendAny ==
    /\ codec.op = "none"
    /\ \E msg \in Messages : codec' = Written("AppendAny", msg, 0, AppendAny(<<>>, msg))
    /\ UNCHANGED serverVars

\* maps of at most MaxEntries entries, in every iteration order: keys that
\* are empty, a prefix of one another, upper-case and lower-case
MaxEntries == 3
MapKeys == {<<>>, <<"a">>, <<"b">>, <<"a", "b">>, <<"B">>}
MapValues == {<<>>, <<"x">>}
MapIterations ==
    UNION { { it \in [1..k -> [key : MapKeys, value : MapValues]] :
                \A i, j \in 1..k : i # j => it[i].key # it[j].key } : k \in 0..MaxEntries }

Call_AppendAnyMap ==
    /\ codec.op = "none"
    /\ \E it \in MapIterations :
         codec' = Written("AppendAnyMap", it, 0, AppendAnyMap(<<>>, it))
    /\ UNCHANGED serverVars

\* the buffers ReadCommands is called with: a RESP command whose only
\* argument is cut short
\* a part of a buffer: the bytes of one command and its arguments, as a
\* RESP array of bulks or as a plain-text line that ends with eol
RespPart(a) == [bytes |-> RespEncode(a), args |-> a]

LinePart(a, eol) == [bytes |-> Spaced(a) \o eol, args |-> a]

\* buffers of complete commands that change dialect from part to part
MixedBuffers ==
    UNION { { << RespPart(x), LinePart(y, e) >>,
              << LinePart(y, e), RespPart(x) >>,
              << RespPart(x), LinePart(y, e), RespPart(<<PING>>) >>,
              << LinePart(y, e), RespPart(x), LinePart(<<PING>>, e) >> } :
            x \in {<<PING>>, <<SET, KEY, VALUE>>},
            y \in {<<PING>>, <<SET, KEY, VALUE>>},
            e \in {<<"\n">>, CRLF} }

BufferOf(t) == Flatten([i \in 1..Len(t) |-> t[i].bytes])

FrameInputs ==
    { <<"*", "1", "\r", "\n">> \o v : v \in ShortBulks } \cup
    { BufferOf(t) : t \in MixedBuffers }

Call_ReadCommands ==
    /\ codec.op = "none"
    /\ \E buf \in FrameInputs :
         codec' = [op |-> "ReadCommands", arg |-> buf, num |-> 0, out |-> <<>>,
                   r |-> ReadCommands(buf), cmd |-> Incomplete(Redis, <<>>)]
    /\ UNCHANGED serverVars

CodecNext ==
    \/ Call_ReadNextCommand
    \/ Call_ReadCommands
    \/ Call_AppendAnyMap
    \/ Call_prefixERRIfNeeded
    \/ Call_AppendAny
    \/ Call_AppendInt
    \/ Call_AppendBulk
    \/ Call_AppendArray
    \/ Call_ReadNextRESP
    \/ Call_AppendString
    \/ Call_AppendError

CodecSpec == Init /\ [][CodecNext]_vars

(***************************************************************************)
(* The life cycle of the server: ListenAndServe, OnBoot and Close.  The    *)
(* critical sections of rs.mu are single steps; TLS is off.                *)
(***************************************************************************)
restVars == <<redHubBufMap, sessionVars, lockVars, codec, memVars>>

errNotRunning == "server not running"

\* ListenAndServe up to the call of gnet.Run: running is set
ListenAndServe_Start ==
    /\ engineState = "none"
    /\ runs < MaxRuns
    /\ runs' = runs + 1
    /\ running' = TRUE
    /\ engineState' = "starting"
    /\ UNCHANGED <<engine, closes, stops, closed, closeEv, restVars>>

\* gnet.Run is ready to accept connections and calls OnBoot with its Engine
OnBoot ==
    /\ engineState = "starting"
    /\ engine' = runs
    /\ engineState' = "serving"
    /\ UNCHANGED <<running, runs, closes, stops, closed, closeEv, restVars>>

\* gnet.Run ends by itself: it could not start, or an event returned Shutdown
Run_Ends ==
    /\ engineState \in {"starting", "serving"}
    /\ engineState' = "stopped"
    /\ UNCHANGED <<running, engine, runs, closes, stops, closed, closeEv, restVars>>

\* ListenAndServe after gnet.Run returned: running is cleared
ListenAndServe_Return ==
    /\ engineState = "stopped"
    /\ running' = FALSE
    /\ engineState' = "none"
    /\ UNCHANGED <<engine, runs, closes, stops, closed, closeEv, restVars>>

\* rs.engine.Stop(ctx): the outcomes [err, state] for the Engine e.  The
\* Engine of the run in progress is shut down before Stop returns; the zero
\* Engine is refused or dereferenced (a panic); an Engine of an earlier run
\* is shut down already.
Stop(e) ==
    IF e = 0
    THEN { [err |-> "empty engine", state |-> engineState],
           [err |-> Panic, state |-> "crashed"] }
    ELSE IF e = runs /\ engineState = "serving"
    THEN { [err |-> NoErr, state |-> "stopped"] }
    ELSE { [err |-> "engine in shutdown", state |-> engineState] }

\* mutant of CloseRunning: running stays set
CloseRunning_KeepFlag(o) ==
    /\ running' = TRUE
    /\ engineState' = o.state
    /\ stops' = [stops EXCEPT ![runs] = @ + 1]
    /\ closed' = closed \cup {runs}
    /\ closeEv' = [found |-> TRUE, err |-> o.err, stop |-> TRUE]

\* Close when running is set, for the outcome o of rs.engine.Stop
CloseRunning(o) ==
    /\ running' = FALSE
    /\ engineState' = o.state
    /\ stops' = [stops EXCEPT ![runs] = @ + 1]
    /\ closed' = closed \cup {runs}
    /\ closeEv' = [found |-> TRUE, err |-> o.err, stop |-> TRUE]

\* RedHub.Close
RedHub_Close ==
    /\ engineState # "crashed"
    /\ closes < MaxCloses
    /\ closes' = closes + 1
    /\ IF ~running
       THEN /\ closeEv' = [found |-> FALSE, err |-> errNotRunning, stop |-> FALSE]
            /\ UNCHANGED <<running, engineState, stops, closed>>
       ELSE \E o \in Stop(engine) : CloseRunning(o)
    /\ UNCHANGED <<engine, runs, restVars>>

LifeNext ==
    \/ ListenAndServe_Start
    \/ OnBoot
    \/ Run_Ends
    \/ ListenAndServe_Return
    \/ RedHub_Close

LifeSpec == Init /\ [][LifeNext]_vars

(***************************************************************************)
(* The storage of one connection's accumulation buffer: OnTraffic with     *)
(* cb.buf as a bytes.Buffer over a backing array, and the commands as      *)
(* slices.  The handler keeps every command it is called with and returns  *)
(* None.                                                                   *)
(***************************************************************************)
\* the accumulations explored fit the first allocation of the bytes.Buffer
MaxBuffered == 64
MaxEvents == 3

\* copy(store[at:], p) after the reslice of cb.buf.Write
WriteAt(st, at, p) ==
    [k \in 1..(IF Len(st) > at + Len(p) THEN Len(st) ELSE at + Len(p)) |->
        IF k > at /\ k <= at + Len(p) THEN p[k - at] ELSE st[k]]

\* ReadCommands on the slice of the backing array that starts at off: as
\* readLoop, with the place of each command.  A command of
\* parseRESPCommand is b[:i+1] and slices of it; a command of parseLine has
\* arrays of its own.
RECURSIVE readRefs(_, _, _)
\* mutant of refStep: a command of parseLine is slices of the buffer too
refStep_LineInPlace(b, off, refs, r) ==
    IF r.err # NoErr
    THEN [returns |-> TRUE, refs |-> <<>>, leftover |-> <<>>, err |-> r.err]
    ELSE IF r.cmd = <<>> /\ r.rest = b
    THEN [returns |-> FALSE, refs |-> <<>>, leftover |-> <<>>, err |-> NoErr]
    ELSE readRefs(r.rest, off + Len(b) - Len(r.rest),
                  IF r.cmd = <<>> THEN refs
                  ELSE Append(refs, [first  |-> b[1],
                                     shared |-> TRUE,
                                     lo     |-> off,
                                     raw    |-> r.cmd[1].Raw,
                                     args   |-> r.cmd[1].Args,
                                     marks  |-> IF b[1] = "*" THEN r.marks ELSE <<>>]))

refStep(b, off, refs, r) ==
    IF r.err # NoErr
    THEN [returns |-> TRUE, refs |-> <<>>, leftover |-> <<>>, err |-> r.err]
    ELSE IF r.cmd = <<>> /\ r.rest = b
    THEN [returns |-> FALSE, refs |-> <<>>, leftover |-> <<>>, err |-> NoErr]
    ELSE readRefs(r.rest, off + Len(b) - Len(r.rest),
                  IF r.cmd = <<>> THEN refs
                  ELSE Append(refs, [first  |-> b[1],
                                     shared |-> b[1] = "*",
                                     lo     |-> off,
                                     raw    |-> r.cmd[1].Raw,
                                     args   |-> r.cmd[1].Args,
                                     marks  |-> IF b[1] = "*" THEN r.marks ELSE <<>>]))

readRefs(b, off, refs) ==
    IF Len(b) = 0
    THEN [returns |-> TRUE, refs |-> refs, leftover |-> <<>>, err |-> NoErr]
    ELSE refStep(b, off, refs,
                 IF b[1] = "*" THEN parseRESPCommand(b) ELSE parsePlainTextCommand(b))

\* OnTraffic after cb.buf.Write(buf): st is the backing array, n the bytes
\* buffered, rc the result of ReadCommands(cb.buf.Bytes())
Mem_Framed(st, n, rc) ==
    IF ~rc.returns
    THEN /\ framing' = TRUE
         /\ store' = st
         /\ bufLen' = n
         /\ UNCHANGED kept
    ELSE IF rc.err # NoErr
    THEN /\ store' = st
         /\ bufLen' = n
         /\ UNCHANGED <<kept, framing>>
    ELSE IF Len(rc.leftover) = 0
    THEN /\ store' = st
         /\ bufLen' = 0
         /\ kept' = kept \o rc.refs
         /\ UNCHANGED framing
    ELSE /\ store' = WriteAt(st, 0, rc.leftover)
         /\ bufLen' = Len(rc.leftover)
         /\ UNCHANGED <<kept, framing>>

\* the chunks that arrive: RESP commands of the same and of different
\* sizes, plain-text lines, a malformed frame, an incomplete command
MemChunks ==
    { RespEncode(<<SET, KEY, VALUE>>),
      RespEncode(<<SET, KEY, <<"o", "t", "h", "e", "r">>>>),
      RespEncode(<<PING>>),
      SET \o <<" ">> \o KEY \o <<" ">> \o VALUE \o CRLF,
      <<"\"", "a", "\\", "n", "\"", " ", "b", "\n">>,
      <<"'", "'", " ", " ", "g", "\r", "\n">>,
      BadCount,
      <<"*", "1", "\r", "\n", "$", "4">> }

Mem_OnTraffic ==
    /\ ~framing
    /\ memEvents < MaxEvents
    /\ memEvents' = memEvents + 1
    /\ \E buf \in MemChunks :
         /\ bufLen + Len(buf) <= MaxBuffered
         /\ Mem_Framed(WriteAt(store, bufLen, buf), bufLen + Len(buf),
                       readRefs(Slice(WriteAt(store, bufLen, buf), 0, bufLen + Len(buf)),
                                0, <<>>))
    /\ UNCHANGED <<redHubBufMap, sessionVars, lockVars, codec, lifeVars>>

MemSpec == Init /\ [][Mem_OnTraffic]_vars

(***************************************************************************)
(* Properties                                                              *)
(***************************************************************************)
HasEntry(c) == c \in DOMAIN redHubBufMap

\* the last event was a data arrival that reached the framer
Framing == ev.kind = "traffic" /\ Len(ev.chunk) > 0

\* the commands a pipeline of argument lists stands for
CommandsOf(L) == [i \in 1..Len(L) |-> [Raw |-> RespEncode(L[i]), Args |-> L[i]]]

\* the byte streams made only of complete commands
CompleteStreams == { EncodeAll(L) : L \in CmdLists }

\* buffers that hold no complete command: the strict prefixes of one
\* well-formed command, and an array that declares 2 elements and supplies 1
ZeroCommandBuffers ==
    { SubSeq(RespEncode(L[1]), 1, k) : L \in CmdLists, k \in 1..7 } \cup {TwoOfOne}

\* C1 (chunking invariance): whenever the bytes read so far on a connection
\* followed by the bytes still to arrive are a stream B of complete commands,
\* the framing of the part read has returned, and the commands framed so far
\* followed by the commands framed from leftover ++ rest of B are the
\* commands of framing B in one pass.
C1_ChunkingInvariance ==
    \A c \in Conns :
        (HasEntry(c) /\ (recv[c] \o wire[c]) \in CompleteStreams)
            => /\ connState[c] # "framing"
               /\ framed[c] \o ReadCommands(redHubBufMap[c].buf \o wire[c]).cmds
                    = ReadCommands(recv[c] \o wire[c]).cmds

\* C2 (termination): every data-arrival event runs to completion: the
\* ReadCommands call of the last event returned, whatever the front of the
\* buffer was.
C2_FramingReturns == Framing => ev.returned

\* C3 (idempotent leftover): framing a buffer that holds zero complete
\* commands returns no command, no error and the whole buffer as leftover.
C3_IdempotentLeftover ==
    (Framing /\ ev.acc \in ZeroCommandBuffers)
        => ev.rc = [returns |-> TRUE, cmds |-> <<>>, leftover |-> ev.acc, err |-> NoErr]

\* the commands passed to the handler by the last event, in call order
HandledCmds == [n \in 1..Len(ev.handled) |-> ev.handled[n].cmd]

\* the handler calls of the last event stopped at the first Close and not before
StopsAtClose(n) ==
    /\ \A i \in 1..(Len(ev.handled) - 1) : ev.handled[i].status # Close
    /\ Len(ev.handled) = n \/ ev.handled[Len(ev.handled)].status = Close

\* C4 as stated (pipelining): a buffer that is the concatenation of n >= 1
\* complete RESP commands frames to exactly those n commands, in order, with
\* empty leftover and no error, and the handler is called exactly n times.
C4_PipeliningExactlyN ==
    \A L \in CmdLists :
        (Framing /\ ev.acc = EncodeAll(L))
            => /\ ev.rc = [returns |-> TRUE, cmds |-> CommandsOf(L),
                           leftover |-> <<>>, err |-> NoErr]
               /\ Len(ev.handled) = Len(L)

\* C4 as amended: ... and the handler is called for those commands in order,
\* once each, up to and including the first call that returns Close: exactly
\* n times when no call returns Close.
C4_Pipelining ==
    \A L \in CmdLists :
        (Framing /\ ev.acc = EncodeAll(L))
            => /\ ev.rc = [returns |-> TRUE, cmds |-> CommandsOf(L),
                           leftover |-> <<>>, err |-> NoErr]
               /\ Len(ev.handled) \in 1..Len(L)
               /\ HandledCmds = SubSeq(CommandsOf(L), 1, Len(ev.handled))
               /\ StopsAtClose(Len(L))

C4_Witness ==
    /\ Framing
    /\ \E L \in CmdLists : Len(L) = 3 /\ ev.acc = EncodeAll(L) /\ Len(ev.handled) = 3

\* C5 (Raw and Args): for every well-formed RESP command of a received
\* buffer, the command framed has Raw equal to the received bytes of that
\* frame and Args equal to the bulk payloads, whatever bytes the payloads hold.
C5_RawAndArgs ==
    \A L \in CmdLists :
        (Framing /\ ev.acc = EncodeAll(L))
            => /\ Len(ev.rc.cmds) = Len(L)
               /\ \A i \in 1..Len(L) :
                    LET off == Len(EncodeAll(SubSeq(L, 1, i - 1))) IN
                    /\ ev.rc.cmds[i].Raw = SubSeq(ev.acc, off + 1, off + Len(RespEncode(L[i])))
                    /\ ev.rc.cmds[i].Args = L[i]

C5_Witness ==
    /\ Framing
    /\ Len(ev.rc.cmds) = 1
    /\ ev.rc.cmds[1].Args = <<SET, <<>>, <<"\r", "\n", "*", "$">>>>
    /\ ev.rc.cmds[1].Raw = ev.acc

\* C6 (dispatch order): on every connection the commands passed to the
\* handler so far, followed by the pending queue, are the commands framed so
\* far, in framing order: each command is passed at most once, from the
\* front of the queue, never before an earlier one.
C6_FifoOnce ==
    /\ \A c \in Conns :
         HasEntry(c) => framed[c] = calls[c] \o redHubBufMap[c].command
    /\ (Framing /\ ev.returned /\ ev.rc.err = NoErr)
         => HandledCmds = SubSeq(ev.pre \o ev.rc.cmds, 1, Len(ev.handled))

C6_Witness ==
    /\ Framing
    /\ Len(ev.handled) = 1
    /\ Len(calls[ev.conn]) = 3
    /\ calls[ev.conn][1] # calls[ev.conn][3]

\* C7 (Close propagation): when a handler call of a data-arrival event
\* returns Close it is the last call of the event, the commands queued after
\* it stay undispatched, the output accumulated up to and including that
\* call is written if non-empty, and the event returns Close; the event
\* returns Close in no other case.
C7_ClosePropagation ==
    Framing =>
      /\ \A i \in 1..Len(ev.handled) :
           ev.handled[i].status = Close
             => /\ i = Len(ev.handled)
                /\ redHubBufMap[ev.conn].command
                     = SubSeq(ev.pre \o ev.rc.cmds, i + 1, Len(ev.pre \o ev.rc.cmds))
                /\ ev.writes = IF ev.handled[i].out = <<>> THEN <<>>
                               ELSE <<ev.handled[i].out>>
                /\ ev.action = Close
                /\ connState[ev.conn] = "closing"
      /\ ev.action = Close
           => Len(ev.handled) > 0 /\ ev.handled[Len(ev.handled)].status = Close

C7_Witness ==
    /\ Framing
    /\ ev.action = Close
    /\ Len(ev.rc.cmds) = 3
    /\ Len(ev.handled) = 2
    /\ ev.writes = <<OK \o OK>>
    /\ Len(redHubBufMap[ev.conn].command) = 1

\* C8 (Shutdown propagation): when a handler call returns Shutdown it is the
\* last call of the event, and the event returns Shutdown, which stops the
\* engine.
C8_ShutdownPropagation ==
    Framing =>
      \A i \in 1..Len(ev.handled) :
         ev.handled[i].status = Shutdown
           => i = Len(ev.handled) /\ ev.action = Shutdown /\ ~serving

\* C9 (framer error): when ReadCommands reports a protocol error the event
\* writes exactly one reply, "-ERR " + error text + CRLF, calls no handler,
\* leaves the pending queue as it was and returns None; the connection and
\* the server go on.
C9_FramerError ==
    (Framing /\ ev.returned /\ ev.rc.err # NoErr)
        => /\ ev.writes = << <<"-", "E", "R", "R", " ">> \o ErrorText(ev.rc.err) \o CRLF >>
           /\ ev.handled = <<>>
           /\ ev.rc.cmds = <<>>
           /\ redHubBufMap[ev.conn].command = ev.pre
           /\ ev.action = None
           /\ connState[ev.conn] = "open"
           /\ serving

C9_Witness ==
    /\ Framing
    /\ ev.rc.err = errInvalidMultiBulkLength
    /\ ev.acc = RespEncode(<<PING>>) \o BadCount
    /\ Len(ev.writes) = 1

\* C10 (error discards the buffer): after a data-arrival event that handled
\* a framer error the connection's accumulated buffer is empty.
C10_ErrorDiscardsBuffer ==
    (Framing /\ ev.returned /\ ev.rc.err # NoErr) => redHubBufMap[ev.conn].buf = <<>>

\* C11 (quoted tokens): the plain-text line `SET "a b" c` frames to one
\* command with the arguments SET, `a b` and c, the quoted text being one
\* argument, and no error.
C11_QuotedToken ==
    (Framing /\ ev.acc = QuotedLine)
        => /\ ev.returned
           /\ ev.rc.err = NoErr
           /\ Len(ev.rc.cmds) = 1
           /\ ev.rc.cmds[1].Args = <<SET, <<"a", " ", "b">>, <<"c">>>>

\* C12 (malformed RESP frames): when the accumulated buffer is a RESP frame
\* with a non-numeric, zero or negative array count, a count line or bulk
\* length line whose LF has no CR before it, a non-numeric or negative bulk
\* length, or a payload not followed by CRLF, ReadCommands returns the
\* protocol error for it and no commands, also after a well-formed command.
C12_MalformedFrame ==
    \A m \in MalformedFrames :
        (Framing /\ ev.acc = m.b)
            => /\ ev.returned
               /\ ev.rc.err = m.err
               /\ ev.rc.cmds = <<>>

C12_Witness ==
    /\ Framing
    /\ ev.acc = <<"*", "1", "\r", "\n", "$", "4", "\r", "\n">> \o PING \o <<"x", "x">>
    /\ ev.rc.err = errInvalidBulkLength

\* C13 (element marker): when an element slot of a RESP frame is present in
\* the buffer and starts with a byte other than '$', ReadCommands returns a
\* protocol error; it does not treat the frame as incomplete.
C13_WrongMarkerIsError ==
    (Framing /\ ev.acc = WrongMarker)
        => /\ ev.returned
           /\ ev.rc.err # NoErr
           /\ ev.rc.cmds = <<>>

\* C14 (native dialect): a buffer that starts with '$' is framed as a native
\* line frame `$<len> <payload>` + CRLF: `$13 SET key value` + CRLF yields
\* one command with the arguments SET, key and value.
C14_NativeFrame ==
    (Framing /\ ev.acc = NativeLine)
        => /\ ev.returned
           /\ ev.rc.err = NoErr
           /\ Len(ev.rc.cmds) = 1
           /\ ev.rc.cmds[1].Args = <<SET, KEY, VALUE>>

\* C15 (unbalanced quotes): a plain-text line that ends while a quote is
\* still open makes ReadCommands return the "unbalanced quotes in request"
\* protocol error and no command.
C15_UnbalancedQuotes ==
    \A line \in UnterminatedLines :
        (Framing /\ ev.acc = line)
            => /\ ev.returned
               /\ ev.rc.err = errUnbalancedQuotes
               /\ ev.rc.cmds = <<>>

C15_Witness ==
    /\ Framing
    /\ ev.acc = <<"\"", "a", " ", "b", "\n">>
    /\ ev.rc.err = errUnbalancedQuotes
    /\ ev.writes = << <<"-", "E", "R", "R", " ">> \o ErrorText(errUnbalancedQuotes) \o CRLF >>

\* C16 (no empty command): every command framed, queued or passed to the
\* handler has at least one argument; an empty buffer yields no command; a
\* blank or all-spaces plain-text line is consumed and yields no command,
\* the bytes after it being framed as usual.
C16_ArgsNeverEmpty ==
    /\ \A i \in 1..Len(ev.rc.cmds) : Len(ev.rc.cmds[i].Args) >= 1
    /\ \A i \in 1..Len(ev.handled) : Len(ev.handled[i].cmd.Args) >= 1
    /\ \A c \in Conns :
         HasEntry(c) => \A i \in 1..Len(redHubBufMap[c].command) :
                           Len(redHubBufMap[c].command[i].Args) >= 1
    /\ (ev.kind = "traffic" /\ ev.chunk = <<>>) => (ev.rc.cmds = <<>> /\ ev.handled = <<>>)
    /\ \A line \in BlankLines :
         /\ (Framing /\ ev.acc = line)
              => ev.rc = [returns |-> TRUE, cmds |-> <<>>, leftover |-> <<>>, err |-> NoErr]
         /\ (Framing /\ ev.acc = line \o RespEncode(<<PING>>))
              => ev.rc = [returns |-> TRUE, cmds |-> CommandsOf(<< <<PING>> >>),
                          leftover |-> <<>>, err |-> NoErr]

C16_Witness ==
    /\ Framing
    /\ ev.acc = <<" ", " ", "\n">> \o RespEncode(<<PING>>)
    /\ Len(ev.rc.cmds) = 1
    /\ Len(ev.handled) = 1

\* the last handler call of the last event
LastHandled == ev.handled[Len(ev.handled)]

\* strict, non-empty prefixes of a well-formed command: bytes that framing
\* leaves unconsumed
PartialTails == { SubSeq(RespEncode(<<PING>>), 1, k) : k \in 1..(Len(RespEncode(<<PING>>)) - 1) }

\* C17 (dispatch rule and batching): an event issues at most one write; when
\* it called the handler, framing left nothing unconsumed and the write (if
\* any) carries the output accumulator of the last call; when the buffer is
\* a complete command followed by unconsumed bytes, the handler is not
\* called, nothing is written, the framed command is in the pending queue
\* after those queued before, and the unconsumed bytes stay accumulated.
C17_DispatchRule ==
    /\ Len(ev.writes) <= 1
    /\ (Framing /\ Len(ev.handled) > 0)
         => /\ ev.rc.leftover = <<>>
            /\ redHubBufMap[ev.conn].buf = <<>>
            /\ ev.writes = WriteIfAny(LastHandled.out)
    /\ \A t \in PartialTails :
         (Framing /\ ev.acc = RespEncode(<<PING>>) \o t)
            => /\ ev.handled = <<>>
               /\ ev.writes = <<>>
               /\ redHubBufMap[ev.conn].command = ev.pre \o CommandsOf(<< <<PING>> >>)
               /\ redHubBufMap[ev.conn].buf = t

\* C18 (table membership): in every reachable state the table holds an entry
\* for a connection exactly when OnOpen has run for it and OnClose has not
\* run for it since; right after OnOpen the entry has an empty buffer and an
\* empty queue; a data-arrival event leaves the set of entries as it was.
C18_TableMembership ==
    /\ [](\A c \in Conns : HasEntry(c) <=> connState[c] # "closed")
    /\ [](ev.kind = "open" => redHubBufMap[ev.conn] = NewConnBuffer)
    /\ [][ev'.kind = "traffic" => DOMAIN redHubBufMap' = DOMAIN redHubBufMap]_vars

C18_Witness ==
    /\ ev.kind = "close"
    /\ ev.conn = "c2"
    /\ ~HasEntry("c2")
    /\ HasEntry("c1")
    /\ Len(calls["c1"]) > 0

\* the bytes of a list of commands
RECURSIVE RawBytes(_)
RawBytes(cmds) == IF cmds = <<>> THEN <<>> ELSE Head(cmds).Raw \o RawBytes(Tail(cmds))

\* the client's byte stream on c is RESP throughout
RespStream(c) == Len(recv[c] \o wire[c]) > 0 /\ (recv[c] \o wire[c])[1] = "*"

\* C19 (buffer teardown): OnClose removes the connection's entry; on a
\* connection that is open (again), the commands passed to the handler and
\* those queued are commands framed since it was last opened, and the bytes
\* of the commands framed followed by the bytes accumulated are the bytes
\* received since it was last opened: nothing queued or accumulated before
\* the last OnClose reaches the handler.
C19_BufferTeardown ==
    /\ ev.kind = "close" => ~HasEntry(ev.conn)
    /\ \A c \in Conns :
         HasEntry(c)
           => /\ framed[c] = calls[c] \o redHubBufMap[c].command
              /\ RespStream(c) => RawBytes(framed[c]) \o redHubBufMap[c].buf = recv[c]

C19_Witness ==
    /\ ev.kind = "traffic"
    /\ ev.conn = "c1"
    /\ Len(discarded["c1"]) > 0
    /\ Len(ev.handled) > 0
    /\ RespStream("c1")

\* places of a callback where the worker writes the table, reads the table,
\* and runs the application's code
TableWrites == {"open_put", "close_delete"}
TableReads == {"traffic_lookup"}
UserCode == {"open_callback", "close_callback", "traffic_rest"}

\* C20 (lock discipline): in every interleaving of the callbacks of
\* different workers, a worker about to insert into or delete from the table
\* holds the write lock and no other worker is at an insert, a delete or a
\* lookup; a worker at a lookup holds a read lock; a worker running the
\* handler or the onOpened / onClosed callback holds the lock in no mode.
C20_LockDiscipline ==
    \A c \in Conns :
        /\ pc[c] \in TableWrites
             => /\ connSync.w = c
                /\ \A d \in Conns \ {c} : pc[d] \notin TableWrites \cup TableReads
        /\ pc[c] \in TableReads => (c \in connSync.r /\ connSync.w = "none")
        /\ pc[c] \in UserCode => (connSync.w # c /\ c \notin connSync.r)

\* two lookups overlap
C20_Witness ==
    /\ \A c \in Conns : pc[c] \in TableReads
    /\ connSync.r = Conns

\* the connections other than that of the event a step performs keep their
\* entry, their accumulated buffer, their pending queue and their histories
OthersUntouched ==
    \A c \in Conns \ {ev'.conn} :
        /\ (c \in DOMAIN redHubBufMap') <=> (c \in DOMAIN redHubBufMap)
        /\ (c \in DOMAIN redHubBufMap) => redHubBufMap'[c] = redHubBufMap[c]
        /\ recv'[c] = recv[c]
        /\ framed'[c] = framed[c]
        /\ calls'[c] = calls[c]

\* C21 (connection isolation): a callback for one connection leaves the
\* accumulated buffer and the pending queue of every other connection as
\* they were; the commands an event passes to the handler are commands
\* framed from the bytes of its own connection, and what it writes is the
\* output of its own handler calls.
C21_ConnectionIsolation ==
    /\ [][OthersUntouched]_vars
    /\ [](Framing =>
            /\ \A i \in 1..Len(ev.handled) :
                 \E j \in 1..Len(framed[ev.conn]) : framed[ev.conn][j] = ev.handled[i].cmd
            /\ Len(ev.handled) > 0 => ev.writes = WriteIfAny(LastHandled.out))

\* both connections are open, each with state of its own
C21_Witness ==
    /\ Framing
    /\ ev.conn = "c2"
    /\ Len(ev.handled) = 1
    /\ HasEntry("c1")
    /\ Len(redHubBufMap["c1"].command) = 2
    /\ redHubBufMap["c2"].command = <<>>

\* C22 (no entry): a data-arrival event for a connection that is not in the
\* table writes exactly the reply "-ERR Client is closed" + CRLF, calls no
\* handler, leaves the connection without an entry and returns None.
C22_NoEntry ==
    (ev.kind = "traffic" /\ connState[ev.conn] = "closed")
        => /\ ev.writes = << <<"-", "E", "R", "R", " ", "C", "l", "i", "e", "n", "t", " ",
                                "i", "s", " ", "c", "l", "o", "s", "e", "d", "\r", "\n">> >>
           /\ ev.handled = <<>>
           /\ ~HasEntry(ev.conn)
           /\ ev.action = None
           /\ serving

C22_Witness ==
    /\ ev.kind = "traffic"
    /\ ev.conn = "c1"
    /\ connState["c1"] = "closed"
    /\ Len(ev.writes) = 1
    /\ HasEntry("c2")

C24_NegativeLengthRejected ==
    (codec.op = "ReadNextRESP" /\ codec.arg \in NegativeLengths) => codec.r = NoValue

\* C25 (incomplete input): for every strict prefix of a well-formed encoded
\* value, an Array with an incomplete element included, ReadNextRESP returns
\* (0, RESP{}); on the whole value, also when more bytes follow it, it
\* returns the value and consumes exactly its bytes.
C25_IncompleteConsumesNothing ==
    codec.op = "ReadNextRESP"
        => \A v \in WellFormed :
             /\ codec.arg \in StrictPrefixes(v) => codec.r = NoValue
             /\ codec.arg \in {v, v \o <<":">>}
                  => /\ codec.r.n = Len(v)
                     /\ codec.r.resp.Raw = v
                     /\ codec.r.resp.Type = v[1]

\* an Array whose second element is cut short
C25_Witness ==
    /\ codec.op = "ReadNextRESP"
    /\ codec.arg = AppendArray(<<>>, 2) \o AppendInt(<<>>, 7) \o <<"$", "3", "\r", "\n", "a">>
    /\ codec.r = NoValue

\* C26 (null): ReadNextRESP on the output of AppendNull, `$-1` + CRLF,
\* returns a Bulk with nil Data and consumes 5 bytes; on the zero-length
\* Bulk `$0` + CRLF + CRLF it returns a Bulk with present, empty Data and
\* consumes 6 bytes.
C26_NullBulk ==
    codec.op = "ReadNextRESP"
        => /\ codec.arg = AppendNull(<<>>)
                => /\ codec.arg = <<"$", "-", "1", "\r", "\n">>
                   /\ codec.r.n = 5
                   /\ codec.r.resp.Type = Bulk
                   /\ codec.r.resp.DataIsNil
           /\ codec.arg = <<"$", "0", "\r", "\n", "\r", "\n">>
                => /\ codec.r.n = 6
                   /\ codec.r.resp.Type = Bulk
                   /\ ~codec.r.resp.DataIsNil
                   /\ codec.r.resp.Data = <<>>

C26_Witness ==
    /\ codec.op = "ReadNextRESP"
    /\ codec.arg = <<"$", "-", "1", "\r", "\n">>
    /\ codec.r.n = 5
    /\ codec.r.resp.DataIsNil

\* the number of LF bytes of b
LFCount(b) == Cardinality({ k \in 1..Len(b) : b[k] = "\n" })

\* C27 (line values): AppendString and AppendError emit the marker, then s
\* with each CR and each LF replaced by one space, then CRLF; the output has
\* exactly one LF, its last byte, and reads back as one String / Error that
\* consumes all of it, with Data equal to s when s has no CR or LF.
C27_StripNewlines ==
    codec.op \in {"AppendString", "AppendError"}
        => /\ Len(codec.out) = Len(codec.arg) + 3
           /\ codec.out[1] = (IF codec.op = "AppendString" THEN "+" ELSE "-")
           /\ \A k \in 1..Len(codec.arg) :
                codec.out[k + 1] = (IF codec.arg[k] \in {"\r", "\n"} THEN " " ELSE codec.arg[k])
           /\ SubSeq(codec.out, Len(codec.out) - 1, Len(codec.out)) = CRLF
           /\ LFCount(codec.out) = 1
           /\ codec.r.n = Len(codec.out)
           /\ codec.r.resp.Type = codec.out[1]
           /\ codec.r.resp.Raw = codec.out
           /\ LFCount(codec.arg) = 0 /\ (\A k \in 1..Len(codec.arg) : codec.arg[k] # "\r")
                => codec.r.resp.Data = codec.arg

C27_Witness ==
    /\ codec.op = "AppendError"
    /\ codec.arg = <<"a", "\r", "\n">>
    /\ codec.r.resp.Data = <<"a", " ", " ">>

\* C28 (invalid input): ReadNextRESP returns (0, RESP{}) for an empty input,
\* for a first byte that is none of ':', '+', '$', '*', '-', for a header
\* line whose LF has no CR right before it, and for an Integer whose payload
\* is empty, a lone '-', or holds a character that is not a digit.
C28_InvalidInput ==
    (codec.op = "ReadNextRESP" /\ codec.arg \in Invalid \cup {<<>>}) => codec.r = NoValue

C28_Witness ==
    /\ codec.op = "ReadNextRESP"
    /\ codec.arg = <<":", "-", "\r", "\n">>
    /\ codec.r = NoValue


\* the dialect ReadNextCommand picks for a non-empty packet
DialectOf(p) ==
    IF p[1] = "*" THEN Redis ELSE IF p[1] = "$" THEN Tile38 ELSE Telnet

\* C29: ReadNextCommand chooses the dialect from packet[0] ('*' Redis, '$'
\* Tile38, anything else Telnet), and on a strict prefix of a well-formed
\* command of that dialect it returns complete = false, err = nil, no args
\* and the whole packet as leftover.
C29_Resumable ==
    codec.op = "ReadNextCommand" =>
        /\ Len(codec.arg) > 0 => codec.cmd.kind = DialectOf(codec.arg)
        /\ (\E v \in Commands : codec.arg \in StrictPrefixes(v)) =>
              /\ codec.cmd.complete = FALSE
              /\ codec.cmd.err = NoErr
              /\ codec.cmd.args = <<>>
              /\ codec.cmd.leftover = codec.arg

\* ReadNextCommand was called with a Tile38 line cut in the middle of its
\* payload and reported no command, keeping the packet
C29_Witness ==
    /\ codec.op = "ReadNextCommand"
    /\ codec.arg = SubSeq(NativeLine, 1, 9)
    /\ codec.cmd = Incomplete(Tile38, SubSeq(NativeLine, 1, 9))


\* the bytes of m before its first space, all of m when it has none
LeadingToken(m) ==
    IF \E k \in 1..Len(m) : m[k] = " "
    THEN SubSeq(m, 1, (CHOOSE k \in 1..Len(m) : m[k] = " " /\ \A j \in 1..(k - 1) : m[j] # " ") - 1)
    ELSE m

AllUpper(w) == Len(w) > 0 /\ \A k \in 1..Len(w) : IsUpper(w[k])

\* C30: prefixERRIfNeeded returns the trimmed message when its first
\* space-delimited token is entirely A-Z and "ERR " followed by the trimmed
\* message otherwise (just "ERR" for a blank message); applied to its own
\* result it changes nothing; and AppendAny on an error emits '-', that
\* result with CR and LF replaced by spaces, CRLF: an Error whose message
\* starts with a token made only of the letters A-Z.
C30_ErrorPrefix ==
    /\ codec.op = "prefixERRIfNeeded" =>
          /\ AllUpper(LeadingToken(codec.out))
          /\ codec.out =
                (IF AllUpper(LeadingToken(TrimSpace(codec.arg)))
                 THEN TrimSpace(codec.arg)
                 ELSE IF TrimSpace(codec.arg) = <<>> THEN <<"E", "R", "R">>
                 ELSE <<"E", "R", "R", " ">> \o TrimSpace(codec.arg))
          /\ prefixERRIfNeeded(codec.out) = codec.out
    /\ codec.op = "AppendAny" =>
          /\ codec.out = <<"-">> \o stripNewlines(prefixERRIfNeeded(codec.arg)) \o CRLF
          /\ codec.r.n = Len(codec.out)
          /\ codec.r.resp.Type = Error
          /\ AllUpper(LeadingToken(codec.r.resp.Data))

\* a lower-case message with blanks around it got the prefix
C30_Witness ==
    /\ codec.op = "AppendAny"
    /\ codec.arg = <<" ", "e", "1", "\n">>
    /\ codec.out = <<"-", "E", "R", "R", " ", "e", "1", "\r", "\n">>


\* key, value as two Bulks
PairBytes(item) == AppendBulk(<<>>, item.key) \o AppendBulk(<<>>, item.value)

\* C31: AppendAny on a string-keyed map writes an Array header with count
\* 2 x (number of entries), then the key/value pairs in ascending
\* lexicographic key order, whatever the iteration order was: the output
\* is the one the ascending arrangement of the entries gives.
C31_MapDeterministic ==
    codec.op = "AppendAnyMap" =>
        /\ \E s \in [1..Len(codec.arg) -> 1..Len(codec.arg)] :
              /\ \A p, q \in 1..Len(codec.arg) : p # q => s[p] # s[q]
              /\ \A p \in 1..(Len(codec.arg) - 1) :
                    strLess(codec.arg[s[p]].key, codec.arg[s[p + 1]].key)
              /\ codec.out =
                    AppendArray(<<>>, 2 * Len(codec.arg))
                        \o Flatten([p \in 1..Len(codec.arg) |-> PairBytes(codec.arg[s[p]])])
        /\ codec.r.n = Len(codec.out)
        /\ codec.r.resp.Type = Array
        /\ codec.r.resp.Count = 2 * Len(codec.arg)

\* a map visited in the order b, ab, B is written in the order B, ab, b
C31_Witness ==
    /\ codec.op = "AppendAnyMap"
    /\ Len(codec.arg) = 3
    /\ codec.arg[1].key = <<"b">>
    /\ codec.arg[2].key = <<"a", "b">>
    /\ codec.arg[3].key = <<"B">>
    /\ codec.out = AppendArray(<<>>, 6)
                      \o PairBytes(codec.arg[3]) \o PairBytes(codec.arg[2])
                      \o PairBytes(codec.arg[1])


\* a step that is a Close call
CloseCalled == closes' = closes + 1

\* C32: a Close call that finds running false returns "server not running",
\* requests no engine stop and changes nothing of the server (before the
\* first ListenAndServe, after ListenAndServe returned, after an earlier
\* successful Close); so at most one stop is requested per ListenAndServe
\* run, and none outside a run.
C32_CloseNotRunning ==
    /\ [][(CloseCalled /\ ~running)
            => /\ closeEv'.err = errNotRunning
               /\ ~closeEv'.stop
               /\ UNCHANGED <<running, engine, engineState, stops>>]_vars
    /\ [](stops[0] = 0 /\ \A r \in 1..MaxRuns : stops[r] <= 1)

\* a second Close in the run whose first Close requested the stop
C32_Witness ==
    /\ runs = 1
    /\ closes = 2
    /\ stops[1] = 1
    /\ closeEv = [found |-> FALSE, err |-> errNotRunning, stop |-> FALSE]


\* C40: in every interleaving of ListenAndServe, OnBoot and Close, a Close
\* that found running set stopped the engine of the run in progress: in no
\* state has a Close cleared running in the current run while its engine
\* is serving.
C40_CloseStopsEngine == ~(runs \in closed /\ engineState = "serving")


\* the bytes a kept command's Raw holds now
RawNow(c) == IF c.shared THEN Slice(store, c.lo, c.lo + Len(c.raw)) ELSE c.raw

\* C33: the Raw and Args of a RESP command the handler was called with stay
\* equal to the bytes received for it after later data-arrival events on
\* the connection.
C33_HandlerBytesStable ==
    \A k \in 1..Len(kept) :
        kept[k].shared =>
            /\ RawNow(kept[k]) = kept[k].raw
            /\ ArgsOfMarks(RawNow(kept[k]), kept[k].marks) = kept[k].args


\* C34: for a bulk length L that is a non-negative int, the largest
\* included, followed by fewer than L + 2 bytes, ReadNextRESP returns
\* (0, RESP{}) and ReadCommands returns no command, no error and the whole
\* buffer as leftover; neither panics.
C34_NoOverflow ==
    /\ (codec.op = "ReadNextRESP" /\ codec.arg \in ShortBulks) => codec.r = NoValue
    /\ (codec.op = "ReadCommands"
          /\ codec.arg \in { <<"*", "1", "\r", "\n">> \o v : v \in ShortBulks })
         => codec.r = [returns |-> TRUE, cmds |-> <<>>, leftover |-> codec.arg, err |-> NoErr]


\* C35: for a Redis packet with an argument whose declared bulk length is
\* negative ReadNextCommand returns complete = false, no args, the packet
\* as leftover and the error "invalid bulk length"; it does not panic.
C35_NegativeBulkLength ==
    (codec.op = "ReadNextCommand" /\ codec.arg \in NegativeBulks)
        => codec.cmd = Failed(Redis, codec.arg, errInvalidBulkLength)


\* C36: whenever ReadNextCommand reports complete = true, in any of the
\* three dialects, the args it returns are not empty.
C36_CompleteHasArgs ==
    (codec.op = "ReadNextCommand" /\ codec.cmd.complete) => Len(codec.cmd.args) > 0


\* C37: in the Tile38 dialect, a remainder that begins and ends with a
\* double quote after a first argument SET and a last read argument STRING
\* (in any case) becomes one final argument without the enclosing quotes,
\* and a remainder that starts with '{' becomes one final argument as it
\* is; the call returns complete = true and leaves the bytes after the
\* frame's CRLF.
C37_NativeSpecialCases ==
    codec.op = "ReadNextCommand" =>
        \A t \in NativeCases : \A x \in {<<>>, <<"*">>} :
            codec.arg = NativePacket(t) \o x =>
                /\ codec.cmd.complete
                /\ codec.cmd.err = NoErr
                /\ codec.cmd.kind = Tile38
                /\ codec.cmd.leftover = x
                /\ codec.cmd.args =
                      Append(t.head, IF t.rest[1] = "{" THEN t.rest
                                     ELSE SubSeq(t.rest, 2, Len(t.rest) - 1))


\* `$<len>\r\n<arg>\r\n` for each argument in turn
RECURSIVE BulksOf(_)
BulksOf(args) ==
    IF args = <<>> THEN <<>>
    ELSE <<"$">> \o Itoa(Len(Head(args))) \o <<"\r", "\n">> \o Head(args)
             \o <<"\r", "\n">> \o BulksOf(Tail(args))

\* C38: the command of a plain-text line has Raw equal to the RESP
\* array-of-bulk encoding of its Args; ReadCommands on that Raw returns
\* the one command with the same Args and Raw and no leftover; its Raw and
\* Args share no storage with the input buffer, so later events leave them
\* as they were.
C38_LineCommandRaw ==
    \A k \in 1..Len(kept) :
        kept[k].first # "*" =>
            /\ ~kept[k].shared
            /\ RawNow(kept[k]) = kept[k].raw
            /\ kept[k].raw = <<"*">> \o Itoa(Len(kept[k].args)) \o <<"\r", "\n">>
                                 \o BulksOf(kept[k].args)
            /\ ReadCommands(kept[k].raw) =
                   [returns  |-> TRUE,
                    cmds     |-> << [Raw |-> kept[k].raw, Args |-> kept[k].args] >>,
                    leftover |-> <<>>,
                    err      |-> NoErr]

\* a quoted line with an escape was framed and kept, and a later event
\* wrote other bytes over the place of the line in the buffer
C38_Witness ==
    \E k \in 1..Len(kept) :
        /\ kept[k].first = "\""
        /\ kept[k].args = << <<"a", "\n">>, <<"b">> >>
        /\ \E j \in (k + 1)..Len(kept) : kept[j].lo = kept[k].lo /\ kept[j].first = "*"


\* C39: ReadCommands detects the dialect of each command from the first
\* byte of what remains of the buffer: a buffer of a complete RESP command
\* followed by a complete plain-text line, or the reverse, yields the
\* commands in buffer order and an empty leftover.
C39_DialectPerCommand ==
    codec.op = "ReadCommands" =>
        \A t \in MixedBuffers :
            codec.arg = BufferOf(t) =>
                codec.r = [returns  |-> TRUE,
                           cmds     |-> [i \in 1..Len(t) |->
                                            [Raw  |-> RespEncode(t[i].args),
                                             Args |-> t[i].args]],
                           leftover |-> <<>>,
                           err      |-> NoErr]

\* ReadCommands was called with a RESP SET followed by the line PING and
\* returned two commands, the second one PING
C39_Witness ==
    /\ codec.op = "ReadCommands"
    /\ codec.arg = RespEncode(<<SET, KEY, VALUE>>) \o PING \o <<" ", "\r", "\n">>
    /\ Len(codec.r.cmds) = 2
    /\ codec.r.cmds[2].Args = <<PING>>

====
